---- MODULE Spec2Model ----
(***************************************************************************)
(* Model of the Orbrya "Infinite Forest" scenario pipeline:                *)
(*   Scenario (base class), InfiniteForest (subclass), ScenarioManager,    *)
(*   ScenarioLoader.validateSolution, SceneController.spawnTrees, the      *)
(*   VisualProfiler (sampling interval, frame counting, history ring,      *)
(*   health classes, panel updates), CodeExecutor (parseStudentCode,       *)
(*   execute, undo), PromptParser.parsePrompt, the progressive hints and   *)
(*   ProfilingTestSuite.getOverallStatus.                                  *)
(* JavaScript timers (setTimeout) are kept in the sequence `timers`, in    *)
(* scheduling order; a timer callback is one action.  Promise              *)
(* continuations (code after an await) run as microtasks and therefore     *)
(* belong to the action of the callback that resolved the promise.         *)
(***************************************************************************)
EXTENDS Integers, Sequences, FiniteSets, TLC

VARIABLES
    cfg,                \* "json": definition loaded; "fallback": _useFallbackConfig()
    sim,                \* TRUE: the profiler reading is the simulated function of the tree count
    phase,              \* "new": start() not called; "starting": start() awaits setup(); "running"
    state,              \* Scenario.state
    session,            \* InfiniteForest.session
    metrics,            \* Scenario.metrics (fpsBefore, fpsAfter)
    currentTreeCount,   \* SceneController.currentTreeCount
    fps,                \* VisualProfiler.metrics.fps
    timers,             \* pending setTimeout callbacks, in scheduling order
    completions,        \* number of completion records handed to this.onComplete
    resets,             \* number of reset() calls made so far
    disposed,           \* TRUE once dispose() was called on the scenario
    scene,              \* SceneController: the instanced batch pairs and treeInstancedMesh
    profiler,           \* VisualProfiler: history ring, frame counter, metrics, panel elements
    parser,             \* PromptParser: the prompt it is given and the params parsePrompt returns
    detail,             \* the components followed in full: a subset of {"scene", "history",
                        \* "written", "time", "hints", "frames", "ui"}
    liteMode,           \* OrbryaEngine.liteMode
    heap,               \* performance.memory of the host: used heap in MB, Null when absent
    written,            \* the readings written to the history since creation or reset
    now,                \* Date.now(), in the model's time unit
    executor,           \* CodeExecutor: the text of its last parse, the result, history and lastResult
    lastOp              \* the operation performed by the last step, with its result

vars == <<cfg, sim, phase, state, session, metrics, currentTreeCount, fps,
          timers, completions, resets, disposed, scene, profiler, detail,
          liteMode, heap, written, now, executor, parser, lastOp>>

----------------------------------------------------------------------------
(* Bounds of the model *)

MaxAttempts == 2        \* apply() calls
MaxResets == 1          \* reset() calls
MaxResetsAgain == 2     \* reset() calls of the repeated-reset specification
MaxCompletions == 2     \* direct validate()/checkCompletion() calls stop after this many records
MaxHints == 1           \* manual hint requests (session.hintsShown)
MaxSpawns == 4          \* spawnTrees calls on the scene, the one of init() included
MaxTarget == 31         \* ramp-up targets tried: 0..MaxTarget
MaxFps == 46            \* fps readings validate() is tried on: 0..MaxFps
MaxCount == 176         \* tree counts validate() is tried on: 0..MaxCount
MaxSamples == 66        \* samples taken where the written readings are recorded
MaxHealth == 351        \* values getHealth is tried on: -1..MaxHealth
MaxLimit == 1002        \* numbers written in the parsed texts: 0..MaxLimit
MaxNow == 3             \* Date.now() advances up to this value where time is followed
MaxRequests == 4        \* manual hint requests where the hints are followed
MaxPrompt == 1000       \* the largest number written in a prompt
MaxFrames == 3          \* update() calls between two samples where the frames are followed
MaxExecutes == 3        \* successful CodeExecutor.execute() calls

----------------------------------------------------------------------------
(* Program constants *)

Null == 0 - 1           \* JavaScript null for an fps field

BatchSize == 15
FirstBatchDelay == 500
MinBatchDelay == 30
FirstLoopDelay == 150
SampleInterval == 1000
SetupFpsDelay == 500
StartFpsDelay == 2000
StabilizeDelay == 1500
CheckCompletionDelay == 2000
InitialSceneTrees == 25
InitialFps == 60
HistoryLen == 60        \* new Array(60)
HistoryFill == 60       \* .fill(60)

States == {"idle", "broken", "inspecting", "fixed", "complete"}

\* variant: the values of the JSON definition, whatever was loaded
ValidationLoaded(c) ==
    [initialTreeCount |-> 500, targetTreeCount |-> 50,
     min |-> 10, max |-> 175, targetFPS |-> 45]

\* InfiniteForest._defaults and the "validation" block of the JSON definition
Validation(c) ==
    IF c = "json"
    THEN [initialTreeCount |-> 500, targetTreeCount |-> 50,
          min |-> 10, max |-> 175, targetFPS |-> 45]
    ELSE [initialTreeCount |-> 300, targetTreeCount |-> 50,
          min |-> 10, max |-> 175, targetFPS |-> 45]

\* hints of the configuration: the JSON definition has one timed hint,
\* _getFallbackHints() has three
Hints(c) ==
    IF c = "json"
    THEN <<[level |-> 1, delay |-> 60000]>>
    ELSE <<[level |-> 1, delay |-> 60000], [level |-> 2, delay |-> 120000],
           [level |-> 3, delay |-> 180000]>>

\* this.config as the hint and parsing code sees it: null (the fallback
\* branch) when no definition was loaded and after dispose()
Config == IF disposed THEN "fallback" ELSE cfg

\* a || b of JavaScript for numbers: null and 0 are falsy
OrElse(a, b) == IF a = Null \/ a = 0 THEN b ELSE a

----------------------------------------------------------------------------
(* Student code.  A text is a sequence of tokens; white space between      *)
(* tokens is what the patterns' \s* skips.                                 *)

Tok(s) == [s |-> s, n |-> 0]
Num(n) == [s |-> "num", n |-> n]

WhileLt(n) == <<Tok("while"), Tok("("), Tok("treeCount"), Tok("<"), Num(n), Tok(")"),
                Tok("{"), Tok("}")>>
WhileLe(n) == <<Tok("while"), Tok("("), Tok("treeCount"), Tok("<="), Num(n), Tok(")"),
                Tok("{"), Tok("}")>>
WhileTrue == <<Tok("while"), Tok("("), Tok("true"), Tok(")"), Tok("{"), Tok("}")>>

\* InfiniteForest._getFallbackCode, the text inspect() loads into the
\* editor: the loop is `while (true)`, with a line comment after it, and
\* the suggested `while (treeCount < 50)` stands in the last line comment.
\* "//" opens a line comment, "eol" ends the line, "text" is other text.
FallbackCode ==
    <<Tok("//"), Tok("text"), Tok("eol"),
      Tok("text"), Tok("eol"),
      Tok("while"), Tok("("), Tok("true"), Tok(")"), Tok("//"), Tok("text"), Tok("eol"),
      Tok("{"), Tok("text"), Tok("}"), Tok("eol"),
      Tok("//"), Tok("text"), Tok("eol"),
      Tok("//"), Tok("text"), Tok("while"), Tok("("), Tok("treeCount"), Tok("<"), Num(50),
      Tok(")"), Tok("eol"),
      Tok("}"), Tok("eol"), Tok("}")>>

\* the texts apply() is called with
Codes == {WhileLt(5), WhileLt(50), WhileTrue}

\* pattern p (a sequence of token kinds, "num" standing for (\d+)) matches at position i
MatchAt(code, i, p) ==
    /\ i + Len(p) - 1 <= Len(code)
    /\ \A j \in 1..Len(p) : code[i + j - 1].s = p[j]

\* String.prototype.match: position of the leftmost match, 0 when there is none
FirstMatch(code, p) ==
    IF \E i \in 1..Len(code) : MatchAt(code, i, p)
    THEN CHOOSE i \in 1..Len(code) :
            /\ MatchAt(code, i, p)
            /\ \A k \in 1..(i - 1) : ~MatchAt(code, k, p)
    ELSE 0

\* match[1]: the number captured by the group of p
Captured(code, p) ==
    LET i == FirstMatch(code, p)
        g == CHOOSE j \in 1..Len(p) : p[j] = "num"
    IN  code[i + g - 1].n

\* code.acceptablePatterns of the JSON definition
JsonPatterns ==
    <<[regex |-> <<"treeCount", "<", "num">>, minValue |-> 10, maxValue |-> 175]>>

\* InfiniteForest._getFallbackPatterns
FallbackPatterns ==
    <<[regex |-> <<"while", "(", "treeCount", "<", "num", ")">>, minValue |-> 10, maxValue |-> 175],
      [regex |-> <<"while", "(", "treeCount", "<=", "num", ")">>, minValue |-> 10, maxValue |-> 174],
      [regex |-> <<"while", "(", "num", ">", "treeCount", ")">>, minValue |-> 10, maxValue |-> 175]>>

\* index of the first pattern that matches, 0 when none does
FirstPattern(pats, code) ==
    IF \E k \in 1..Len(pats) : FirstMatch(code, pats[k].regex) > 0
    THEN CHOOSE k \in 1..Len(pats) :
            /\ FirstMatch(code, pats[k].regex) > 0
            /\ \A m \in 1..(k - 1) : FirstMatch(code, pats[m].regex) = 0
    ELSE 0

\* ScenarioLoader.validateSolution: the first matching pattern decides, and
\* its value bounds are checked
validateSolution(code) ==
    LET k == FirstPattern(JsonPatterns, code) IN
    IF k = 0 THEN [valid |-> FALSE, extractedValue |-> Null]
    ELSE LET v == Captured(code, JsonPatterns[k].regex) IN
         IF v < JsonPatterns[k].minValue \/ v > JsonPatterns[k].maxValue
         THEN [valid |-> FALSE, extractedValue |-> v]
         ELSE [valid |-> TRUE, extractedValue |-> v]

\* InfiniteForest._parseStudentCode: the loader when a config is loaded,
\* otherwise the fallback patterns (whose value bounds are not checked)
parseStudentCode(c, code) ==
    IF c = "json" THEN validateSolution(code)
    ELSE LET k == FirstPattern(FallbackPatterns, code) IN
         IF k = 0 THEN [valid |-> FALSE, extractedValue |-> Null]
         ELSE [valid |-> TRUE, extractedValue |-> Captured(code, FallbackPatterns[k].regex)]

----------------------------------------------------------------------------
(* Timers *)

Timer(kind, delay) ==
    [kind |-> kind, delay |-> delay, count |-> 0, target |-> 0, next |-> 0,
     origin |-> "none", via |-> "none", level |-> 0]

\* setTimeout(callback, delay)
Schedule(ts, t) == Append(ts, t)

RemoveAt(ts, i) == SubSeq(ts, 1, i - 1) \o SubSeq(ts, i + 1, Len(ts))

\* A timer scheduled earlier with a delay that is not longer fires earlier.
CanFire(i) ==
    /\ i \in 1..Len(timers)
    /\ \A j \in 1..(i - 1) : timers[j].delay > timers[i].delay

Pending(kind) == {i \in 1..Len(timers) : timers[i].kind = kind}

\* InfiniteForest._stopHintTimers: clearTimeout on every stored hint handle
stopHintTimers(ts) == SelectSeq(ts, LAMBDA t : t.kind # "hint")

\* InfiniteForest._startHintTimers: one timer per hint with trigger 'time'
RECURSIVE startHintTimers(_, _, _)
startHintTimers(ts, hints, k) ==
    IF k > Len(hints) THEN ts
    ELSE startHintTimers(
            Schedule(ts, [Timer("hint", hints[k].delay) EXCEPT !.level = hints[k].level]),
            hints, k + 1)

\* delay = Math.max(30, delay * 0.85), in whole milliseconds
NextDelay(d) == IF (d * 85) \div 100 < MinBatchDelay THEN MinBatchDelay ELSE (d * 85) \div 100

----------------------------------------------------------------------------
(* Session *)

\* the session object of the constructor
\* (checkpoints holds the keys of session.checkpoints, records their values)
NewSession ==
    [attempts |-> 0, hintsShown |-> 0, hintsRevealed |-> <<>>, codeEdits |-> 0,
     checkpoints |-> {}, completed |-> FALSE, fpsBefore |-> Null, fpsAfter |-> Null,
     startTime |-> Null, records |-> {}]

\* variant: reset() starts from a fresh session and keeps only attempts
ResetSessionFresh(s) ==
    [attempts |-> s.attempts, hintsShown |-> 0, hintsRevealed |-> <<>>,
     codeEdits |-> 0, checkpoints |-> {}, completed |-> FALSE,
     fpsBefore |-> Null, fpsAfter |-> Null, startTime |-> now, records |-> {}]

\* the session object reset() builds
ResetSession(s) ==
    [attempts |-> s.attempts, hintsShown |-> s.hintsShown, hintsRevealed |-> <<>>,
     codeEdits |-> 0, checkpoints |-> {}, completed |-> FALSE,
     fpsBefore |-> Null, fpsAfter |-> Null, startTime |-> now, records |-> {}]

\* Date.now() - this.session.startTime: null counts as 0
Elapsed(s) == now - (IF s.startTime = Null THEN 0 ELSE s.startTime)

\* variant: the record of an id is written again every time it is reached
markCheckpointAgain(s, id) ==
    [s EXCEPT !.checkpoints = @ \cup {id},
              !.records = {r \in @ : r.id # id}
                            \cup {[id |-> id, timestamp |-> now, elapsed |-> Elapsed(s)]}]

\* InfiniteForest._markCheckpoint: the first record of an id is kept
markCheckpoint(s, id) ==
    IF id \in s.checkpoints THEN s
    ELSE [s EXCEPT !.checkpoints = @ \cup {id},
                   !.records = @ \cup {[id |-> id, timestamp |-> now, elapsed |-> Elapsed(s)]}]

Op(name) ==
    [op |-> name, valid |-> FALSE, result |-> "none", log |-> "none", arg |-> 0,
     writes |-> {},     \* the profiler UI elements the call has written
     message |-> "none"]   \* the feedback message the call has logged

\* the simulated profiler: the readings ScenarioTestRunner expects, below 30
\* for 400 trees and more, at least 45 for 100 trees and fewer
SimFps(n) == IF n >= 400 THEN 20 ELSE IF n > 100 THEN 40 ELSE 60

\* the readings of the free profiler: no frame counted, and the target rate
FpsValues == {0, 45}

\* performance.now() in milliseconds: where the frames are followed the
\* clock counts sampling periods
perfNow == now * SampleInterval

\* Math.round of a / b, for a >= 0 and b > 0
Round(a, b) == (2 * a + b) \div (2 * b)

\* sampleMetrics: Math.round((this.frameCount / elapsed) * 1000)
frameRate(frameCount, elapsed) == Round(frameCount * 1000, elapsed)

\* VisualProfiler.sampleMetrics: the value the next sample stores in metrics.fps.
\* Where the frames are followed it is computed from the frame counter (p is
\* the profiler).  Where the written readings are recorded the rate rises by
\* one from sample to sample, so that no two samples of a run write the
\* same value.
SampleValues(p, n) ==
    IF "frames" \in detail
    THEN {IF perfNow - p.lastFpsTime > 0
          THEN frameRate(p.frameCount, perfNow - p.lastFpsTime) ELSE fps}
    ELSE IF "written" \in detail THEN {fps + 1}
    ELSE IF sim THEN {SimFps(n)} ELSE FpsValues

----------------------------------------------------------------------------
(* SceneController: the instanced tree batches.  A pair is the trunk and   *)
(* the foliage InstancedMesh of one spawnTrees call.                       *)

Parts == {"trunkGeo", "trunkMat", "foliageGeo", "foliageMat"}

\* the constructor: this.treeInstancedMesh = null
EmptyScene == [pairs |-> <<>>, mesh |-> 0, calls |-> 0]

\* variant: the old pair is removed from the scene but not disposed
cleanupNoDispose(sc) ==
    IF sc.mesh = 0 THEN sc
    ELSE [sc EXCEPT !.pairs[sc.mesh] =
            [@ EXCEPT !.trunkAttached = FALSE, !.foliageAttached = FALSE]]

\* spawnTrees, "Cleanup existing": the referenced pair is removed from the
\* scene and its geometries and materials are disposed
cleanup(sc) ==
    IF sc.mesh = 0 THEN sc
    ELSE [sc EXCEPT !.pairs[sc.mesh] =
            [@ EXCEPT !.trunkAttached = FALSE, !.foliageAttached = FALSE,
                      !.disposals = [k \in Parts |-> @[k] + 1]]]

\* every pair allocated so far is out of the scene and disposed
AllReleased(sc) ==
    \A k \in 1..Len(sc.pairs) :
        /\ ~sc.pairs[k].trunkAttached
        /\ ~sc.pairs[k].foliageAttached
        /\ \A q \in Parts : sc.pairs[k].disposals[q] >= 1

\* variant: the loop sets the transforms of the instances 1..n-1 only
newPairShort(sc, n) ==
    [count |-> n, trunk |-> 1..(n - 1), foliage |-> 1..(n - 1),
     trunkAttached |-> TRUE, foliageAttached |-> TRUE,
     disposals |-> [k \in Parts |-> 0],
     afterRelease |-> AllReleased(sc)]

\* the two InstancedMesh of n instances, setMatrixAt(i) for i = 0..n-1 on
\* both, and scene.add of both; sc is the scene the allocation starts from
newPair(sc, n) ==
    [count |-> n, trunk |-> 0..(n - 1), foliage |-> 0..(n - 1),
     trunkAttached |-> TRUE, foliageAttached |-> TRUE,
     disposals |-> [k \in Parts |-> 0],
     afterRelease |-> AllReleased(sc)]

\* SceneController.spawnTrees(n).  new InstancedMesh(geo, mat, n) builds a
\* Float32Array(n * 16), which throws a RangeError for a negative n: the
\* call ends there, after the cleanup.
spawnScene(sc, n) ==
    LET c == [cleanup(sc) EXCEPT !.calls = @ + 1] IN
    IF n < 0 THEN c
    ELSE [c EXCEPT !.pairs = Append(@, newPair(c, n)), !.mesh = Len(c.pairs) + 1]

\* this.currentTreeCount = count is the last assignment of spawnTrees
countAfterSpawn(cur, n) == IF n < 0 THEN cur ELSE n

\* the scene after spawnTrees(n), when the scene is followed in full
spawnTrees(sc, n) == IF "scene" \in detail THEN spawnScene(sc, n) ELSE sc

\* the scene batches that are attached to the scene
AttachedBatches(sc) ==
    {<<k, "trunk">> : k \in {j \in 1..Len(sc.pairs) : sc.pairs[j].trunkAttached}}
        \cup {<<k, "foliage">> : k \in {j \in 1..Len(sc.pairs) : sc.pairs[j].foliageAttached}}

\* the counts spawnTrees is called with through the engine's public API
SpawnCounts == {0 - 1, 0, 1, 50, 500}

\* SceneController.init: this.spawnTrees(this.currentTreeCount)
InitialScene(d) ==
    IF "scene" \in d THEN spawnScene(EmptyScene, InitialSceneTrees) ELSE EmptyScene

----------------------------------------------------------------------------
(* VisualProfiler: the circular fps history.  Slot k of the JavaScript     *)
(* array is element k + 1 of the sequence.                                 *)

\* this.thresholds of the constructor
DefaultThresholds ==
    [fps |-> [green |-> 45, yellow |-> 30],
     memory |-> [green |-> 300, yellow |-> 350],
     drawCalls |-> [green |-> 50, yellow |-> 80]]

\* this.thresholds after the edit PROJECT_CONTEXT.md describes ("Adjust FPS
\* thresholds: edit this.thresholds"), with other bounds in the same order
EditedThresholds ==
    [fps |-> [green |-> 50, yellow |-> 25],
     memory |-> [green |-> 200, yellow |-> 340],
     drawCalls |-> [green |-> 40, yellow |-> 60]]

Metrics == {"fps", "memory", "drawCalls"}

\* this.prevValues = {}: every cached value is undefined
NoValues == [fps |-> Null, memory |-> Null, dc |-> Null]

\* the elements cacheElements() stores, by the metric they show
FpsElements == {"fps", "fpsVal", "fpsRing", "fpsStatus", "fpsBar"}
MemoryElements == {"memVal", "memBar"}
DrawCallElements == {"dcVal", "dcBar"}
StatElements == {"triangles", "geometries"}
ElementNames == FpsElements \cup MemoryElements \cup DrawCallElements \cup StatElements

\* this.renderer?.info of a profiler that has no renderer
NoInfo == [calls |-> Null, triangles |-> Null, geometries |-> Null]

\* the panel of createPanel(): for each element the value updateUI wrote to
\* it last, Null while it shows the text of the markup
NewElements == [e \in ElementNames |-> Null]

\* the constructor followed by init(): new Array(60).fill(60), historyIndex
\* = 0, metrics.memory = 0, visible, and the interval startUpdates() made
NewProfiler ==
    [fpsHistory |-> [k \in 1..HistoryLen |-> HistoryFill], historyIndex |-> 0,
     thresholds |-> DefaultThresholds, memory |-> 0,
     updateInterval |-> TRUE, visible |-> TRUE,
     frameCount |-> 0, lastFpsTime |-> 0,
     counted |-> 0,     \* history value: the update() calls since the previous sample
     renderer |-> NoInfo, drawCalls |-> 0, triangles |-> 0, geometries |-> 0,
     panel |-> FALSE,   \* TRUE when init() was given a panel manager: this.elements is filled
     elements |-> NewElements, prevValues |-> NoValues, graphUpdateCounter |-> 0]

\* variant: the fps bounds are exclusive
getHealthExclusive(t, metric, value) ==
    IF metric = "fps"
    THEN IF value > t[metric].green THEN "healthy"
         ELSE IF value > t[metric].yellow THEN "warning"
         ELSE "critical"
    ELSE IF value < t[metric].green THEN "healthy"
         ELSE IF value < t[metric].yellow THEN "warning"
         ELSE "critical"

\* VisualProfiler.getHealth: the class (c) of the returned object
getHealth(t, metric, value) ==
    IF metric = "fps"
    THEN IF value >= t[metric].green THEN "healthy"
         ELSE IF value >= t[metric].yellow THEN "warning"
         ELSE "critical"
    ELSE IF value < t[metric].green THEN "healthy"
         ELSE IF value < t[metric].yellow THEN "warning"
         ELSE "critical"

\* VisualProfiler.getHealth: the returned object, whose fields are c (the
\* class) and l (the label); the icon i is left out
healthObject(t, metric, value) ==
    LET c == getHealth(t, metric, value) IN
    [c |-> c,
     l |-> IF metric = "fps"
           THEN (IF c = "healthy" THEN "Excellent"
                 ELSE IF c = "warning" THEN "Moderate" ELSE "Poor")
           ELSE (IF c = "healthy" THEN "Good"
                 ELSE IF c = "warning" THEN "Warning" ELSE "Critical")]

\* VisualProfiler.getMetrics: the metrics with the health object of each;
\* f is this.metrics.fps
getMetrics(p, f) ==
    [fps |-> f, memory |-> p.memory, drawCalls |-> p.drawCalls,
     health |-> [fps |-> healthObject(p.thresholds, "fps", f),
                 memory |-> healthObject(p.thresholds, "memory", p.memory),
                 drawCalls |-> healthObject(p.thresholds, "drawCalls", p.drawCalls)]]

\* obj?.[name] || 'unknown': a property the object does not have is
\* undefined
PropertyOr(obj, name, default) ==
    IF name \in DOMAIN obj THEN obj[name] ELSE default

\* ProfilingTestSuite.getOverallStatus(metrics)
getOverallStatus(m) ==
    LET fpsHealth == PropertyOr(m.health.fps, "class", "unknown")
        memHealth == PropertyOr(m.health.memory, "class", "unknown")
        dcHealth == PropertyOr(m.health.drawCalls, "class", "unknown")
    IN  IF fpsHealth = "critical" \/ memHealth = "critical" \/ dcHealth = "critical"
        THEN "RED"
        ELSE IF fpsHealth = "warning" \/ memHealth = "warning" \/ dcHealth = "warning"
        THEN "YELLOW"
        ELSE "GREEN"

\* variant: the sample is appended to the history
sampleAppend(p, elapsed, v) ==
    IF elapsed > 0
    THEN [p EXCEPT !.fpsHistory = Append(@, v),
                   !.historyIndex = (p.historyIndex + 1) % HistoryLen]
    ELSE p

\* sampleMetrics: the circular buffer update, done when elapsed > 0
sampleMetrics(p, elapsed, v) ==
    IF elapsed > 0
    THEN [p EXCEPT !.fpsHistory[p.historyIndex + 1] = v,
                   !.historyIndex = (p.historyIndex + 1) % HistoryLen]
    ELSE p

\* the profiler after a sample, when the history is followed in full
recordSample(p, elapsed, v) ==
    IF "history" \in detail THEN sampleMetrics(p, elapsed, v) ELSE p

\* sampleMetrics: elapsed = now - this.lastFpsTime; where the frames are not
\* followed, the period of the interval
sampleElapsed(p, delay) ==
    IF "frames" \in detail THEN perfNow - p.lastFpsTime ELSE delay

\* sampleMetrics: this.frameCount = 0; this.lastFpsTime = now
sampleFrames(p, elapsed) ==
    IF "frames" \in detail /\ elapsed > 0
    THEN [p EXCEPT !.frameCount = 0, !.lastFpsTime = perfNow, !.counted = 0]
    ELSE p

\* sampleMetrics: if (performance.memory) this.metrics.memory = Math.round(...)
sampleMemory(p, h) == IF h # Null THEN [p EXCEPT !.memory = h] ELSE p

\* sampleMetrics: the counters of this.renderer.info, when there is one
sampleRenderer(p) ==
    IF p.renderer # NoInfo
    THEN [p EXCEPT !.drawCalls = p.renderer.calls, !.triangles = p.renderer.triangles,
                   !.geometries = p.renderer.geometries]
    ELSE p

\* VisualProfiler.updateUI: the elements it assigns to, for the reading v
uiWrites(p, v) ==
    IF ~p.panel THEN {}
    ELSE (IF p.prevValues.fps # v THEN FpsElements ELSE {})
         \cup (IF p.prevValues.memory # p.memory THEN MemoryElements ELSE {})
         \cup (IF p.prevValues.dc # p.drawCalls THEN DrawCallElements ELSE {})
         \cup StatElements

\* the value updateUI shows in an element
shownValue(p, v, e) ==
    IF e \in FpsElements THEN v
    ELSE IF e \in MemoryElements THEN p.memory
    ELSE IF e \in DrawCallElements THEN p.drawCalls
    ELSE IF e = "triangles" THEN p.triangles
    ELSE p.geometries

\* VisualProfiler.updateUI, v being metrics.fps
updateUI(p, v) ==
    IF ~p.panel THEN p
    ELSE [p EXCEPT
            !.elements = [e \in ElementNames |->
                            IF e \in uiWrites(p, v) THEN shownValue(p, v, e) ELSE @[e]],
            !.prevValues = [fps |-> v, memory |-> p.memory, dc |-> p.drawCalls],
            !.graphUpdateCounter = IF @ + 1 >= 3 THEN 0 ELSE @ + 1]

\* the rest of sampleMetrics where the panel is followed: the renderer's
\* counters are read before, the panel is updated after the memory reading
sampleRendererUI(p) == IF "ui" \in detail THEN sampleRenderer(p) ELSE p
sampleUpdateUI(p, v) == IF "ui" \in detail THEN updateUI(p, v) ELSE p
sampleWrites(p, v) == IF "ui" \in detail THEN uiWrites(p, v) ELSE {}

\* the readings written since creation or reset, recorded where they are followed
recordWritten(w, elapsed, v) ==
    IF "written" \in detail /\ elapsed > 0 THEN Append(w, v) ELSE w

\* variant: the graph is read from slot 0
drawGraphFromZero(p) ==
    [i \in 1..HistoryLen |-> p.fpsHistory[i]]

\* drawGraph: the history read from the cursor, idx = (historyIndex + i) % 60
drawGraph(p) ==
    [i \in 1..HistoryLen |-> p.fpsHistory[((p.historyIndex + (i - 1)) % HistoryLen) + 1]]

\* clearInterval(this.updateInterval): the interval made last is cancelled
clearInterval(ts) ==
    LET S == {i \in 1..Len(ts) : ts[i].kind = "sample"} IN
    IF S = {} THEN ts
    ELSE LET m == CHOOSE i \in S : \A j \in S : j <= i
         IN  SubSeq(ts, 1, m - 1) \o SubSeq(ts, m + 1, Len(ts))

\* variant: startUpdates makes an interval whether or not one is running
startUpdatesAgain(pt) ==
    [p |-> [pt.p EXCEPT !.updateInterval = TRUE],
     ts |-> Append(pt.ts, Timer("sample", SampleInterval))]

\* VisualProfiler.startUpdates, on the profiler and the pending timers
startUpdates(pt) ==
    IF pt.p.updateInterval THEN pt
    ELSE [p |-> [pt.p EXCEPT !.updateInterval = TRUE],
          ts |-> Append(pt.ts, Timer("sample", SampleInterval))]

\* VisualProfiler.stopUpdates
stopUpdates(pt) ==
    IF pt.p.updateInterval
    THEN [p |-> [pt.p EXCEPT !.updateInterval = FALSE], ts |-> clearInterval(pt.ts)]
    ELSE pt

\* VisualProfiler.show / hide
show(pt) == startUpdates([pt EXCEPT !.p.visible = TRUE])
hide(pt) == stopUpdates([pt EXCEPT !.p.visible = FALSE])

\* the number of sampling intervals scheduled
SampleTimers(ts) == Cardinality({i \in 1..Len(ts) : ts[i].kind = "sample"})

\* VisualProfiler.reset: fpsHistory.fill(60), historyIndex = 0, frameCount = 0,
\* prevValues = {}
resetProfiler(p) ==
    [p EXCEPT !.fpsHistory = [k \in DOMAIN p.fpsHistory |-> HistoryFill],
              !.historyIndex = 0,
              !.frameCount = 0,
              !.prevValues = NoValues]

----------------------------------------------------------------------------
(* CodeExecutor *)

maxTreeLimit == 1000

\* the result object parseStudentCode starts from
NewResult ==
    [valid |-> FALSE, limit |-> Null, pattern |-> "none", errors |-> <<>>, warnings |-> <<>>]

\* this.lastResult = null
NoExecResult ==
    [success |-> FALSE, treeCount |-> Null, previousCount |-> Null,
     fpsBefore |-> Null, fpsAfter |-> Null]

\* the executor before its first parse
NewExecutor ==
    [code |-> <<>>, result |-> NewResult,
     history |-> <<>>,      \* this.history: the treeCount of each entry
     lastResult |-> NoExecResult,
     executes |-> 0,        \* the successful execute() calls made: names the execResult objects
     pending |-> <<>>]      \* history value: the counts found by the executes not yet undone

\* the texts CodeExecutor is given: while loops, for loops and assignments
While(cond) == <<Tok("while"), Tok("(")>> \o cond \o <<Tok(")")>>
Lt(n) == <<Tok("treeCount"), Tok("<"), Num(n)>>
Le(n) == <<Tok("treeCount"), Tok("<="), Num(n)>>
Gt(n) == <<Num(n), Tok(">"), Tok("treeCount")>>
Ge(n) == <<Num(n), Tok(">="), Tok("treeCount")>>
Ne(n) == <<Tok("treeCount"), Tok("!="), Num(n)>>
For(op, n) ==
    <<Tok("for"), Tok("("), Tok("int"), Tok("i"), Tok("="), Num(0), Tok(";"),
      Tok("i"), Tok(op), Num(n), Tok(";"), Tok("i"), Tok("++"), Tok(")")>>
Assign(n) == <<Tok("maxTrees"), Tok("="), Num(n), Tok(";")>>
Body == <<Tok("{"), Tok("SpawnTree"), Tok("("), Tok(")"), Tok(";"), Tok("}")>>

\* the tokens that are not made of word characters (\w)
Punctuation ==
    {"(", ")", "{", "}", ";", "<", "<=", ">", ">=", "!=", "=", "==", "&&", "++",
     "//", "/*", "*/", "eol", "text"}

\* an element of a pattern: "word" is \w+, "num" is (\d+), anything else the token itself
MatchTok(t, k) ==
    IF k = "word" THEN t.s \notin Punctuation ELSE t.s = k

MatchWords(code, i, p) ==
    /\ i >= 1
    /\ i + Len(p) - 1 <= Len(code)
    /\ \A j \in 1..Len(p) : MatchTok(code[i + j - 1], p[j])

\* position of the leftmost match, 0 when there is none
FirstWords(code, p) ==
    IF \E i \in 1..Len(code) : MatchWords(code, i, p)
    THEN CHOOSE i \in 1..Len(code) :
            /\ MatchWords(code, i, p)
            /\ \A k \in 1..(i - 1) : ~MatchWords(code, k, p)
    ELSE 0

\* the number captured by the group (\d+) of p, at the leftmost match
CapturedNum(code, p) ==
    LET i == FirstWords(code, p)
        g == CHOOSE j \in 1..Len(p) : p[j] = "num"
    IN  code[i + g - 1].n

\* .replace(/\/\/.*$/gm, ''): from every "//" to the end of its line
RECURSIVE stripLine(_, _, _)
stripLine(code, i, inComment) ==
    IF i > Len(code) THEN <<>>
    ELSE IF inComment
         THEN IF code[i].s = "eol" THEN <<code[i]>> \o stripLine(code, i + 1, FALSE)
              ELSE stripLine(code, i + 1, TRUE)
         ELSE IF code[i].s = "//" THEN stripLine(code, i + 1, TRUE)
              ELSE <<code[i]>> \o stripLine(code, i + 1, FALSE)

\* .replace(/\/\*[\s\S]*?\*\//g, ''): from every "/*" to the next "*/";
\* a "/*" that is not closed stays
RECURSIVE stripBlock(_, _)
stripBlock(code, i) ==
    IF i > Len(code) THEN <<>>
    ELSE LET closes == {j \in (i + 1)..Len(code) : code[j].s = "*/"} IN
         IF code[i].s = "/*" /\ closes # {}
         THEN stripBlock(code, (CHOOSE j \in closes : \A k \in closes : j <= k) + 1)
         ELSE <<code[i]>> \o stripBlock(code, i + 1)

\* CodeExecutor.stripComments: line comments first, then block comments
stripComments(code) == stripBlock(stripLine(code, 1, FALSE), 1)

\* the text with every comment removed: a "//" inside a block comment opens
\* nothing, a "/*" inside a line comment opens nothing
RECURSIVE withoutComments(_, _, _)
withoutComments(code, i, mode) ==
    IF i > Len(code) THEN <<>>
    ELSE IF mode = "line"
         THEN IF code[i].s = "eol" THEN <<code[i]>> \o withoutComments(code, i + 1, "code")
              ELSE withoutComments(code, i + 1, "line")
    ELSE IF mode = "block"
         THEN IF code[i].s = "*/" THEN withoutComments(code, i + 1, "code")
              ELSE withoutComments(code, i + 1, "block")
    ELSE IF code[i].s = "//" THEN withoutComments(code, i + 1, "line")
    ELSE IF code[i].s = "/*" THEN withoutComments(code, i + 1, "block")
    ELSE <<code[i]>> \o withoutComments(code, i + 1, "code")

\* \s* at position i: the first position from i on that is not a line end
RECURSIVE SkipEol(_, _)
SkipEol(code, i) ==
    IF i <= Len(code) /\ code[i].s = "eol" THEN SkipEol(code, i + 1) ELSE i

\* the tokens of code without its trailing line ends
RECURSIVE TrimEol(_)
TrimEol(code) ==
    IF Len(code) > 0 /\ code[Len(code)].s = "eol"
    THEN TrimEol(SubSeq(code, 1, Len(code) - 1))
    ELSE code

NoMatch == [found |-> FALSE, cond |-> <<>>]

\* /while\s*\(\s*(.+?)\s*\)/ tried at position i: the condition runs to the
\* first ")" and, "." matching no line end, has to stand on one line
WhileAt(code, i) ==
    LET a == SkipEol(code, i + 1) IN
    IF code[i].s # "while" \/ a > Len(code) \/ code[a].s # "("
    THEN NoMatch
    ELSE LET b == SkipEol(code, a + 1)
             closes == {j \in b..Len(code) : code[j].s = ")"}
         IN  IF closes = {} THEN NoMatch
             ELSE LET e == CHOOSE j \in closes : \A k \in closes : j <= k
                      c == TrimEol(SubSeq(code, b, e - 1))
                  IN  IF \E k \in 1..Len(c) : c[k].s = "eol" THEN NoMatch
                      ELSE [found |-> TRUE, cond |-> c]

\* cleanCode.match(/while\s*\(\s*(.+?)\s*\)/): the leftmost match
whileMatch(code) ==
    LET S == {i \in 1..Len(code) : WhileAt(code, i).found} IN
    IF S = {} THEN NoMatch
    ELSE WhileAt(code, CHOOSE i \in S : \A k \in S : i <= k)

\* the conditions extractLimitFromCondition tries, in its order, with what
\* it adds to the number
LimitPatterns ==
    <<[regex |-> <<"word", "<", "num">>, add |-> 0],
      [regex |-> <<"word", "<=", "num">>, add |-> 1],
      [regex |-> <<"num", ">", "word">>, add |-> 0],
      [regex |-> <<"num", ">=", "word">>, add |-> 1],
      [regex |-> <<"word", "!=", "num">>, add |-> 0]>>

\* variant: `<=` and `>=` are read like `<` and `>`
extractLimitExclusive(cond) ==
    LET K == {k \in 1..Len(LimitPatterns) : FirstWords(cond, LimitPatterns[k].regex) > 0} IN
    IF K = {} THEN Null
    ELSE LET k == CHOOSE m \in K : \A n \in K : m <= n
         IN  CapturedNum(cond, LimitPatterns[k].regex)

\* CodeExecutor.extractLimitFromCondition: null when no pattern matches
extractLimitFromCondition(cond) ==
    LET K == {k \in 1..Len(LimitPatterns) : FirstWords(cond, LimitPatterns[k].regex) > 0} IN
    IF K = {} THEN Null
    ELSE LET k == CHOOSE m \in K : \A n \in K : m <= n
         IN  CapturedNum(cond, LimitPatterns[k].regex) + LimitPatterns[k].add

Min(a, b) == IF a < b THEN a ELSE b

\* CodeExecutor.addPerformanceWarnings
addPerformanceWarnings(r) ==
    IF r.limit = Null \/ r.limit = 0 THEN r
    ELSE IF r.limit > 500 THEN [r EXCEPT !.warnings = Append(@, "500+ trees")]
    ELSE IF r.limit > 300 THEN [r EXCEPT !.warnings = Append(@, "300+ trees")]
    ELSE IF r.limit > 175 THEN [r EXCEPT !.warnings = Append(@, "175+ trees")]
    ELSE IF r.limit <= 50 THEN [r EXCEPT !.warnings = Append(@, "Good choice")]
    ELSE r

\* the text without its line ends: every gap of the for and assignment
\* patterns is \s* or [^;]+, which line ends pass
Joined(code) == SelectSeq(code, LAMBDA t : t.s # "eol")

\* /for\s*\([^;]+;\s*\w+\s*(<|<=)\s*(\d+)/ at position i of the joined text:
\* the position of the operator, 0 when there is no match
ForAt(code, i) ==
    LET semis == {j \in (i + 2)..Len(code) : code[j].s = ";"} IN
    IF i + 1 > Len(code) \/ code[i].s # "for" \/ code[i + 1].s # "(" \/ semis = {}
    THEN 0
    ELSE LET s == CHOOSE j \in semis : \A k \in semis : j <= k IN
         IF s > i + 2
            /\ (MatchWords(code, s + 1, <<"word", "<", "num">>)
                \/ MatchWords(code, s + 1, <<"word", "<=", "num">>))
         THEN s + 2
         ELSE 0

\* the operator position of the leftmost match of the for pattern, 0 when none
forMatch(code) ==
    LET S == {i \in 1..Len(code) : ForAt(code, i) > 0} IN
    IF S = {} THEN 0 ELSE ForAt(code, CHOOSE i \in S : \A k \in S : i <= k)

\* /(maxTrees|treeCount|count)\s*=\s*(\d+)/i: position of the leftmost match
AssignNames == {"maxTrees", "treeCount", "count"}

assignMatch(code) ==
    LET S == {i \in 1..Len(code) :
                /\ code[i].s \in AssignNames
                /\ MatchWords(code, i + 1, <<"=", "num">>)}
    IN  IF S = {} THEN 0 ELSE CHOOSE i \in S : \A k \in S : i <= k

\* the while branch of parseStudentCode
parseWhile(cond) ==
    LET limit == extractLimitFromCondition(cond)
        r == [NewResult EXCEPT !.pattern = "while"]
    IN  addPerformanceWarnings(
          IF limit # Null
          THEN [r EXCEPT !.limit = Min(limit, maxTreeLimit), !.valid = TRUE,
                         !.warnings = IF limit > maxTreeLimit
                                      THEN <<"Capped at 1000 trees for safety">>
                                      ELSE <<>>]
          ELSE IF cond = <<Tok("true")>>
          THEN [r EXCEPT !.limit = maxTreeLimit, !.valid = TRUE,
                         !.errors = <<"'while (true)' = infinite loop!">>,
                         !.warnings = <<"Safety cap: spawning 1000 trees">>]
          ELSE IF cond = <<Tok("false")>>
          THEN [r EXCEPT !.limit = 0, !.valid = TRUE,
                         !.warnings = <<"'while (false)' spawns 0 trees">>]
          ELSE [r EXCEPT !.errors = <<"Can't parse", "Try: treeCount < 50">>])

\* CodeExecutor.parseStudentCode
CodeExecutor_parseStudentCode(code) ==
    LET clean == stripComments(code)
        w == whileMatch(clean)
        j == Joined(clean)
        f == forMatch(j)
        a == assignMatch(j)
    IN  IF w.found THEN parseWhile(w.cond)
        ELSE IF f > 0
        THEN addPerformanceWarnings(
                [NewResult EXCEPT !.pattern = "for", !.valid = TRUE,
                    !.limit = Min(j[f + 1].n + (IF j[f].s = "<=" THEN 1 ELSE 0), maxTreeLimit)])
        ELSE IF a > 0
        THEN addPerformanceWarnings(
                [NewResult EXCEPT !.pattern = "assignment", !.valid = TRUE,
                    !.limit = Min(j[a + 2].n, maxTreeLimit)])
        ELSE [NewResult EXCEPT !.errors = <<"Couldn't find a loop or tree count.",
                                            "Add: while (treeCount < 50)">>]

----------------------------------------------------------------------------
(* PromptParser.  A prompt is a sequence of tokens: words, numbers and     *)
(* punctuation marks; the white space between them is what \s+ collapses.  *)

\* this.defaults.treeCount
defaultTreeCount == 25

\* the safety bound of extractNumber
maxPromptTrees == 500

NewParams ==
    [treeCount |-> 0, treeType |-> "none", arrangement |-> "none",
     sizeVariation |-> FALSE, density |-> "none"]

NewParser == [prompt |-> <<>>, params |-> NewParams]

\* toLowerCase on the capitalised words of the prompts
LowerCase == [Create |-> "create", Dense |-> "dense", Spawn |-> "spawn"]

toLowerCase(t) == IF t.s \in DOMAIN LowerCase THEN Tok(LowerCase[t.s]) ELSE t

\* [^\w\s]: the characters normalizePrompt replaces by a space
PromptPunctuation == {",", ".", "-", "!"}

\* PromptParser.normalizePrompt: lower case, punctuation out, spaces collapsed
RECURSIVE normalizePrompt(_)
normalizePrompt(p) ==
    IF p = <<>> THEN <<>>
    ELSE IF Head(p).s \in PromptPunctuation THEN normalizePrompt(Tail(p))
    ELSE <<toLowerCase(Head(p))>> \o normalizePrompt(Tail(p))

PromptWords(p) == {p[i].s : i \in 1..Len(p)}

\* a phrase of two words, as new RegExp(keyword) finds it
HasPhrase(p, a, b) == \E i \in 1..(Len(p) - 1) : p[i].s = a /\ p[i + 1].s = b

Numbers(p) == {i \in 1..Len(p) : p[i].s = "num"}

\* the first run of digits of the prompt: numberMatch[1]
FirstNumber(p) == p[CHOOSE i \in Numbers(p) : \A j \in Numbers(p) : i <= j].n

Max(a, b) == IF a >= b THEN a ELSE b

\* this.quantifiers, in the order of Object.entries
Quantifiers ==
    <<[word |-> "few", min |-> 5, max |-> 15], [word |-> "some", min |-> 15, max |-> 35],
      [word |-> "several", min |-> 20, max |-> 40], [word |-> "many", min |-> 50, max |-> 100],
      [word |-> "lots", min |-> 75, max |-> 150], [word |-> "bunch", min |-> 30, max |-> 60]>>

QuantifiersIn(p) == {k \in 1..Len(Quantifiers) : Quantifiers[k].word \in PromptWords(p)}

\* PromptParser.extractNumber on the normalized prompt: the values it can
\* return (Math.random picks any value of a quantifier's range).  Its second
\* pattern, "about N", needs a digit and therefore never gets its turn.
extractNumber(p) ==
    IF Numbers(p) # {}
    THEN {Max(1, Min(FirstNumber(p), maxPromptTrees))}
    ELSE IF QuantifiersIn(p) # {}
    THEN LET q == Quantifiers[CHOOSE k \in QuantifiersIn(p) : \A m \in QuantifiersIn(p) : k <= m]
         IN  q.min..q.max
    ELSE IF "forest" \in PromptWords(p) THEN {50}
    ELSE IF HasPhrase(p, "a", "tree") /\ "trees" \notin PromptWords(p) THEN {1}
    ELSE {defaultTreeCount}

\* PromptParser.extractTreeType on the words of the prompts
extractTreeType(p) ==
    IF PromptWords(p) \cap {"pine", "conifer", "evergreen", "fir", "spruce"} # {} THEN "pine"
    ELSE IF PromptWords(p) \cap {"oak", "deciduous", "leafy"} # {} THEN "oak"
    ELSE IF PromptWords(p) \cap {"mixed", "variety", "various"} # {} THEN "mixed"
    ELSE "generic"

\* PromptParser.extractArrangement on the words of the prompts
extractArrangement(p) ==
    IF PromptWords(p) \cap {"random", "scattered", "natural", "organic", "wild"} # {}
    THEN "random"
    ELSE IF PromptWords(p) \cap {"grid", "rows", "columns", "organized", "orderly"} # {}
    THEN "grid"
    ELSE IF PromptWords(p) \cap {"cluster", "group", "clump", "bunch", "together"} # {}
    THEN "cluster"
    ELSE "random"

\* PromptParser.extractSizeVariation
extractSizeVariation(p) ==
    PromptWords(p) \cap {"varied", "different", "diverse", "mixed", "various", "assorted"} # {}

\* PromptParser.extractDensity: dense, then sparse, then normal keywords
extractDensity(p) ==
    IF \/ PromptWords(p) \cap {"dense", "thick", "packed", "crowded", "many", "full"} # {}
       \/ HasPhrase(p, "lots", "of")
    THEN "dense"
    ELSE IF \/ PromptWords(p) \cap {"sparse", "few", "scattered", "minimal", "light"} # {}
            \/ HasPhrase(p, "spread", "out")
    THEN "sparse"
    ELSE "normal"

\* PromptParser.applyDensityModifier
applyDensityModifier(baseCount, density) ==
    IF density = "dense" THEN baseCount * 2
    ELSE IF density = "sparse" THEN baseCount \div 2
    ELSE baseCount

\* the treeCount of parsePrompt for the count extractNumber returned
promptTreeCount(count, density) ==
    IF count = defaultTreeCount /\ density # "normal"
    THEN applyDensityModifier(count, density)
    ELSE count

\* PromptParser.parsePrompt: the params it can return
parsePrompt(userPrompt) ==
    LET p == normalizePrompt(userPrompt) IN
    {[treeCount |-> promptTreeCount(n, extractDensity(p)),
      treeType |-> extractTreeType(p),
      arrangement |-> extractArrangement(p),
      sizeVariation |-> extractSizeVariation(p),
      density |-> extractDensity(p)] : n \in extractNumber(p)}

----------------------------------------------------------------------------
(* Initial state: ScenarioManager.loadScenario has constructed the          *)
(* scenario and init() has returned; the profiler's sampling interval runs. *)

InitAll(c, sm, d, p, h, ex, pr) ==
    /\ cfg = c
    /\ sim = sm
    /\ detail = d
    /\ disposed = FALSE
    /\ scene = InitialScene(d)
    /\ profiler = p
    /\ liteMode = FALSE
    /\ heap = h
    /\ written = <<>>
    /\ now = 0
    /\ executor = ex
    /\ parser = pr
    /\ phase = "new"
    /\ state = "idle"
    /\ session = NewSession
    /\ metrics = [fpsBefore |-> Null, fpsAfter |-> Null]
    /\ currentTreeCount = InitialSceneTrees
    /\ fps = InitialFps
    /\ timers = <<Timer("sample", SampleInterval)>>
    /\ completions = 0
    /\ resets = 0
    /\ lastOp = Op("init")

\* the prompt parser has parsed nothing yet
InitEngine(c, sm, d, p, h, ex) == InitAll(c, sm, d, p, h, ex, NewParser)

\* the code editor's executor has parsed nothing yet
InitHost(c, sm, d, p, h) == InitEngine(c, sm, d, p, h, NewExecutor)

\* the profiler as init() leaves it, on a host without performance.memory
InitDetail(c, sm, d) == InitHost(c, sm, d, NewProfiler, Null)

\* the scenario specifications keep of the scene only its tree count and of
\* the profiler only its fps reading
InitWith(c, sm) == InitDetail(c, sm, {})

Init == \E c \in {"json", "fallback"} : InitWith(c, FALSE)

----------------------------------------------------------------------------
(* InfiniteForest.setup, up to its await: the session is restamped, the    *)
(* scene is cleared and the first spawnBatch is scheduled.                 *)

setupSession(s) == [s EXCEPT !.startTime = now, !.checkpoints = {}, !.records = {}]

\* getCheckpointStatus: total: 6
totalCheckpoints == 6

\* InfiniteForest.getCheckpointStatus: progress and total
getCheckpointStatus(s) ==
    [progress |-> Cardinality(s.checkpoints), total |-> totalCheckpoints]

\* variant: reset() ramps up to the population it found
firstBatchKeep(origin) ==
    [Timer("spawnBatch", FirstBatchDelay) EXCEPT
        !.target = IF origin = "reset" THEN currentTreeCount
                   ELSE Validation(cfg).initialTreeCount,
        !.next = FirstLoopDelay, !.origin = origin]

firstBatch(origin) ==
    [Timer("spawnBatch", FirstBatchDelay) EXCEPT
        !.target = Validation(cfg).initialTreeCount,
        !.next = FirstLoopDelay, !.origin = origin]

\* InfiniteForest.start, up to `await this.setup()`
Start ==
    /\ phase = "new"
    /\ phase' = "starting"
    /\ session' = setupSession(session)
    /\ currentTreeCount' = 0
    /\ scene' = spawnTrees(scene, 0)
    /\ timers' = Schedule(timers, firstBatch("start"))
    /\ lastOp' = Op("start")
    /\ UNCHANGED <<parser, cfg, sim, detail, liteMode, heap, written, now, executor, disposed, profiler, state, metrics, fps, completions, resets>>

\* the timers start() schedules after `await this.setup()`: hint timers and
\* the fpsBefore capture of Scenario.start
startTimers(ts) ==
    Schedule(startHintTimers(ts, Hints(Config), 1), Timer("baseFpsBefore", StartFpsDelay))

\* variant: the batch count is not capped at the target
nextBatchNoCap(count, target) == count + BatchSize

\* currentCount += batchSize; if (currentCount > targetCount) currentCount = targetCount
nextBatchCount(count, target) ==
    IF count + BatchSize > target THEN target ELSE count + BatchSize

\* the spawnBatch callback of _animateInfiniteLoop.  When the target is
\* reached the promise resolves and the rest of setup() runs, followed by
\* the rest of start() when start() is the caller.
SpawnBatch(i) ==
    /\ CanFire(i)
    /\ timers[i].kind = "spawnBatch"
    /\ LET t == timers[i]
           rest == RemoveAt(timers, i)
       IN  IF t.count >= t.target
           THEN /\ session' = markCheckpoint(session, "scene_loaded")
                /\ timers' = IF t.origin = "start"
                             THEN startTimers(Schedule(rest, Timer("sessFpsBefore", SetupFpsDelay)))
                             ELSE Schedule(rest, Timer("sessFpsBefore", SetupFpsDelay))
                /\ state' = IF t.origin = "start" THEN "broken" ELSE state
                /\ phase' = IF t.origin = "start" THEN "running" ELSE phase
                /\ lastOp' = Op(IF t.origin = "start" THEN "startDone" ELSE "setupDone")
                /\ UNCHANGED <<currentTreeCount, scene>>
           ELSE /\ currentTreeCount' = nextBatchCount(t.count, t.target)
                /\ scene' = spawnTrees(scene, nextBatchCount(t.count, t.target))
                /\ timers' = Schedule(rest,
                        [t EXCEPT !.count = nextBatchCount(t.count, t.target),
                                  !.next = NextDelay(t.next),
                                  !.delay = NextDelay(t.next)])
                /\ lastOp' = Op("spawnBatch")
                /\ UNCHANGED <<session, state, phase>>
    /\ UNCHANGED <<parser, cfg, sim, detail, liteMode, heap, written, now, executor, disposed, profiler, metrics, fps, completions, resets>>

\* setup(): this.session.fpsBefore = this.profiler?.metrics?.fps || 10
SessFpsBefore(i) ==
    /\ CanFire(i)
    /\ timers[i].kind = "sessFpsBefore"
    /\ session' = [session EXCEPT !.fpsBefore = OrElse(fps, 10)]
    /\ timers' = RemoveAt(timers, i)
    /\ lastOp' = Op("sessFpsBefore")
    /\ UNCHANGED <<parser, cfg, sim, detail, liteMode, heap, written, now, executor, disposed, scene, profiler, phase, state, metrics, currentTreeCount, fps, completions, resets>>

\* Scenario.start: this.metrics.fpsBefore = this.profiler?.metrics?.fps || 0
BaseFpsBefore(i) ==
    /\ CanFire(i)
    /\ timers[i].kind = "baseFpsBefore"
    /\ metrics' = [metrics EXCEPT !.fpsBefore = OrElse(fps, 0)]
    /\ timers' = RemoveAt(timers, i)
    /\ lastOp' = Op("baseFpsBefore")
    /\ UNCHANGED <<parser, cfg, sim, detail, liteMode, heap, written, now, executor, disposed, scene, profiler, phase, state, session, currentTreeCount, fps, completions, resets>>

\* VisualProfiler.sampleMetrics on its interval: a new fps reading
Sample(i) ==
    /\ CanFire(i)
    /\ timers[i].kind = "sample"
    /\ "written" \in detail => fps < InitialFps + MaxSamples
    /\ "frames" \in detail => perfNow > profiler.lastFpsTime
    /\ \E v \in SampleValues(profiler, currentTreeCount) :
        LET elapsed == sampleElapsed(profiler, timers[i].delay) IN
        LET q == sampleMemory(
                    sampleRendererUI(sampleFrames(recordSample(profiler, elapsed, v), elapsed)),
                    heap) IN
        /\ fps' = v
        /\ profiler' = sampleUpdateUI(q, v)
        /\ written' = recordWritten(written, elapsed, v)
        /\ lastOp' = [Op("sample") EXCEPT !.writes = sampleWrites(q, v)]
    /\ timers' = Schedule(RemoveAt(timers, i), Timer("sample", SampleInterval))
    /\ UNCHANGED <<parser, cfg, sim, detail, liteMode, heap, now, executor, disposed, scene, phase, state, session, metrics, currentTreeCount, completions, resets>>

\* InfiniteForest.inspect / Scenario.inspect
Inspect ==
    /\ phase = "running"
    /\ state' = "inspecting"
    /\ session' = markCheckpoint(session, "inspect_code")
    /\ lastOp' = Op("inspect")
    /\ UNCHANGED <<parser, cfg, sim, detail, liteMode, heap, written, now, executor, disposed, scene, profiler, phase, metrics, currentTreeCount, fps, timers, completions, resets>>

----------------------------------------------------------------------------
(* apply / validate / checkCompletion *)

\* variant: the attempt is counted after the code was found valid
attemptsIfValid(a, valid) == IF valid THEN a + 1 ELSE a

\* onApplyCode: this.session.attempts++ (before the code is parsed)
attemptsAfterApply(a, valid) == a + 1

\* variant: the extracted value is spawned before the validity check
countAfterExtract(r, cur) == IF r.extractedValue # Null THEN r.extractedValue ELSE cur

\* onApplyCode: spawnTrees(result.extractedValue) only for a valid result
countAfterApply(r, cur) == IF r.valid THEN r.extractedValue ELSE cur

\* onApplyCode / onStudentEdit: the bookkeeping done for every call
applySession(s, valid) ==
    markCheckpoint(
        markCheckpoint([s EXCEPT !.attempts = attemptsAfterApply(@, valid),
                                 !.codeEdits = @ + 1],
                       "code_applied"),
        "code_modified")

\* the state onApplyCode leaves behind (it never assigns this.state)
stateAfterApply(st, valid) == st

\* InfiniteForest.onApplyCode, reached through apply() (via = "scenario")
\* or through ScenarioManager.applyStudentFix (via = "manager")
Apply(code, via) ==
    /\ phase = "running"
    /\ session.attempts < MaxAttempts
    /\ LET r == parseStudentCode(Config, code) IN
        /\ session' = applySession(session, r.valid)
        /\ currentTreeCount' = countAfterApply(r, currentTreeCount)
        /\ scene' = IF r.valid
                    THEN spawnTrees(scene, countAfterApply(r, currentTreeCount))
                    ELSE scene
        /\ state' = stateAfterApply(state, r.valid)
        /\ timers' = IF r.valid
                     THEN Schedule(timers, [Timer("stabilize", StabilizeDelay) EXCEPT !.via = via])
                     ELSE timers
        /\ lastOp' = [op |-> "apply", valid |-> r.valid, arg |-> 0, writes |-> {},
                      message |-> "none",
                      result |-> IF r.valid THEN "pending" ELSE "failure",
                      log |-> IF r.valid THEN "info" ELSE "error"]
    /\ UNCHANGED <<parser, cfg, sim, detail, liteMode, heap, written, now, executor, disposed, profiler, phase, metrics, fps, completions, resets>>

\* variant: fps > targetFPS instead of fps >= targetFPS
validateSuccessStrict(f, n, c) ==
    /\ f > Validation(c).targetFPS
    /\ n >= Validation(c).min
    /\ n <= Validation(c).max

\* validate(): const success = fpsPass && treeCountPass
validateSuccess(f, n, c) ==
    /\ f >= Validation(c).targetFPS
    /\ n >= Validation(c).min
    /\ n <= Validation(c).max

\* validate() and, on success, onComplete(): what they do to the session
validateSession(s, f, ok) ==
    IF ok
    THEN markCheckpoint(
            [markCheckpoint(markCheckpoint([s EXCEPT !.fpsAfter = f], "fps_improved"),
                            "tree_count_valid")
                EXCEPT !.completed = TRUE],
            "scenario_complete")
    ELSE [s EXCEPT !.fpsAfter = f]

\* InfiniteForest._showFeedback: the message it logs, named by its opening
\* words ("Still too many trees", "FPS is", "That works, but ... a bit
\* empty", "... is still causing some lag", story.failure)
showFeedback(f, n, c) ==
    IF f < Validation(c).targetFPS /\ n > Validation(c).max THEN "still too many"
    ELSE IF f < Validation(c).targetFPS THEN "fps"
    ELSE IF n < Validation(c).min THEN "a bit empty"
    ELSE IF n > Validation(c).max THEN "still causing lag"
    ELSE "story failure"

\* InfiniteForest.validate with onComplete() and Scenario.complete(true);
\* ts is the timer list the call starts from
validate(ts, name, via) ==
    LET f == OrElse(fps, 0)
        n == OrElse(currentTreeCount, 0)
        ok == validateSuccess(f, n, cfg)
    IN  /\ session' = validateSession(session, f, ok)
        /\ metrics' = [metrics EXCEPT !.fpsAfter = f]
        /\ state' = IF ok THEN "complete" ELSE state
        /\ completions' = IF ok THEN completions + 1 ELSE completions
        /\ timers' = IF ok
                     THEN IF via = "manager"
                          THEN Schedule(stopHintTimers(ts), Timer("checkCompletion", CheckCompletionDelay))
                          ELSE stopHintTimers(ts)
                     ELSE ts
        /\ lastOp' = [op |-> name, valid |-> TRUE, arg |-> 0, writes |-> {},
                      message |-> IF ok THEN "none" ELSE showFeedback(f, n, cfg),
                      result |-> IF ok THEN "success" ELSE "failure",
                      log |-> IF ok THEN "success" ELSE "warning"]

\* the stabilization callback of onApplyCode; when the promise resolves
\* with success, applyStudentFix schedules its checkCompletion()
Stabilize(i) ==
    /\ CanFire(i)
    /\ timers[i].kind = "stabilize"
    /\ validate(RemoveAt(timers, i), "stabilize", timers[i].via)
    /\ UNCHANGED <<parser, cfg, sim, detail, liteMode, heap, written, now, executor, disposed, scene, profiler, phase, currentTreeCount, fps, resets>>

\* a direct call of validate()
Validate ==
    /\ phase = "running"
    /\ completions < MaxCompletions
    /\ validate(timers, "validate", "scenario")
    /\ UNCHANGED <<parser, cfg, sim, detail, liteMode, heap, written, now, executor, disposed, scene, profiler, phase, currentTreeCount, fps, resets>>

\* Scenario.checkCompletion with Scenario.complete(true)
checkCompletion(ts, name) ==
    LET f == OrElse(metrics.fpsAfter, OrElse(fps, 0))
        ok == f >= Validation(cfg).targetFPS
    IN  /\ state' = IF ok THEN "complete" ELSE state
        /\ completions' = IF ok THEN completions + 1 ELSE completions
        /\ timers' = ts
        /\ lastOp' = [op |-> name, valid |-> FALSE, arg |-> 0, writes |-> {},
                      message |-> "none",
                      result |-> IF ok THEN "success" ELSE "failure", log |-> "none"]

\* a direct call of checkCompletion()
CheckCompletion ==
    /\ phase = "running"
    /\ completions < MaxCompletions
    /\ checkCompletion(timers, "checkCompletion")
    /\ UNCHANGED <<parser, cfg, sim, detail, liteMode, heap, written, now, executor, disposed, scene, profiler, phase, session, metrics, currentTreeCount, fps, resets>>

\* the delayed completion check of ScenarioManager.applyStudentFix
CheckCompletionTimer(i) ==
    /\ CanFire(i)
    /\ timers[i].kind = "checkCompletion"
    /\ checkCompletion(RemoveAt(timers, i), "checkCompletionTimer")
    /\ UNCHANGED <<parser, cfg, sim, detail, liteMode, heap, written, now, executor, disposed, scene, profiler, phase, session, metrics, currentTreeCount, fps, resets>>

----------------------------------------------------------------------------
(* reset and hints *)

\* InfiniteForest.reset followed by Scenario.reset
reset ==
    /\ resets' = resets + 1
    /\ session' = setupSession(ResetSession(session))
    /\ currentTreeCount' = 0
    /\ scene' = spawnTrees(scene, 0)
    /\ timers' = Schedule(stopHintTimers(timers), firstBatch("reset"))
    /\ state' = "idle"
    /\ metrics' = [fpsBefore |-> Null, fpsAfter |-> Null]
    /\ lastOp' = Op("reset")
    /\ UNCHANGED <<parser, cfg, sim, detail, liteMode, heap, written, now, executor, disposed, profiler, phase, fps, completions>>

\* a reset() call on the running scenario
Reset ==
    /\ phase = "running"
    /\ resets < MaxResets
    /\ reset

\* the reset() calls of ScenarioTestRunner.testReset and after: the first
\* one is made on the completed scenario, the later ones at any time
ResetAgain ==
    /\ phase = "running"
    /\ resets < MaxResetsAgain
    /\ resets = 0 => state = "complete"
    /\ reset

\* a direct spawnTrees(n) call (OrbryaEngine.spawnTrees)
SpawnTrees(n) ==
    /\ "scene" \in detail
    /\ scene.calls < MaxSpawns
    /\ scene' = spawnTrees(scene, n)
    /\ currentTreeCount' = countAfterSpawn(currentTreeCount, n)
    /\ lastOp' = [Op("spawnTrees") EXCEPT !.arg = n, !.valid = (n >= 0),
                    !.result = IF n < 0 THEN "throws" ELSE "success"]
    /\ UNCHANGED <<parser, cfg, sim, detail, liteMode, heap, written, now, executor, disposed, profiler, phase, state, session, metrics,
                   fps, timers, completions, resets>>

\* VisualProfiler.update(), called by the render loop for each frame
Update ==
    /\ "frames" \in detail
    /\ profiler.counted < MaxFrames
    /\ profiler' = [profiler EXCEPT !.frameCount = @ + 1, !.counted = @ + 1]
    /\ lastOp' = Op("update")
    /\ UNCHANGED <<parser, cfg, sim, detail, liteMode, heap, written, now, executor, disposed, scene,
                   phase, state, session, metrics, currentTreeCount, fps, timers,
                   completions, resets>>

\* the renderer has drawn a frame: its info holds the counters of that frame
Render(info) ==
    /\ "ui" \in detail
    /\ profiler.renderer # NoInfo
    /\ profiler.renderer # info
    /\ profiler' = [profiler EXCEPT !.renderer = info]
    /\ lastOp' = Op("render")
    /\ UNCHANGED <<parser, cfg, sim, detail, liteMode, heap, written, now, executor, disposed, scene,
                   phase, state, session, metrics, currentTreeCount, fps, timers,
                   completions, resets>>

\* VisualProfiler.reset()
ProfilerReset ==
    /\ detail \cap {"history", "ui"} # {}
    /\ profiler' = resetProfiler(profiler)
    /\ written' = <<>>
    /\ lastOp' = Op("profilerReset")
    /\ UNCHANGED <<parser, cfg, sim, detail, liteMode, heap, now, executor, disposed, scene, phase, state, session, metrics,
                   currentTreeCount, fps, timers, completions, resets>>

\* VisualProfiler.getHealth(metric, value)
GetHealth(metric, value) ==
    /\ lastOp' = [Op("getHealth") EXCEPT !.log = metric, !.arg = value,
                      !.result = getHealth(profiler.thresholds, metric, value)]
    /\ UNCHANGED <<parser, cfg, sim, detail, liteMode, heap, written, now, executor, disposed, scene,
                   profiler, phase, state, session, metrics, currentTreeCount, fps, timers,
                   completions, resets>>

\* the profiler with the pending timers, as its update control sees them
ProfilerTimers == [p |-> profiler, ts |-> timers]

\* a call on the profiler: name is the method, r the profiler and timers it leaves
ProfilerCall(name, r) ==
    /\ profiler' = r.p
    /\ timers' = r.ts
    /\ lastOp' = Op(name)
    /\ UNCHANGED <<parser, cfg, sim, detail, liteMode, heap, written, now, executor, disposed, scene,
                   phase, state, session, metrics, currentTreeCount, fps, completions, resets>>

StartUpdates == ProfilerCall("startUpdates", startUpdates(ProfilerTimers))
StopUpdates == ProfilerCall("stopUpdates", stopUpdates(ProfilerTimers))
Show == ProfilerCall("show", show(ProfilerTimers))
Hide == ProfilerCall("hide", hide(ProfilerTimers))
\* VisualProfiler.dispose() { this.stopUpdates(); }
ProfilerDispose == ProfilerCall("profilerDispose", stopUpdates(ProfilerTimers))

\* OrbryaEngine.toggleLiteMode: the profiler is stopped when lite mode is
\* switched on and started when it is switched off
ToggleLiteMode ==
    LET r == IF ~liteMode THEN stopUpdates(ProfilerTimers) ELSE startUpdates(ProfilerTimers)
    IN  /\ liteMode' = ~liteMode
        /\ profiler' = r.p
        /\ timers' = r.ts
        /\ lastOp' = Op("toggleLiteMode")
        /\ UNCHANGED <<parser, cfg, sim, detail, heap, written, now, executor, disposed, scene,
                       phase, state, session, metrics, currentTreeCount, fps, completions, resets>>

\* VisualProfiler.getMetrics: health.memory of the returned object
GetMetrics ==
    /\ lastOp' = [Op("getMetrics") EXCEPT !.arg = profiler.memory,
                      !.result = getHealth(profiler.thresholds, "memory", profiler.memory)]
    /\ UNCHANGED <<parser, cfg, sim, detail, liteMode, heap, written, now, executor, disposed, scene,
                   profiler, phase, state, session, metrics, currentTreeCount, fps, timers,
                   completions, resets>>

\* ProfilingTestSuite.getReport / logStatus: the status computed from
\* profiler.getMetrics()
GetOverallStatus ==
    /\ lastOp' = [Op("getOverallStatus") EXCEPT
                      !.result = getOverallStatus(getMetrics(profiler, fps))]
    /\ UNCHANGED <<parser, cfg, sim, detail, liteMode, heap, written, now, executor, disposed, scene,
                   profiler, phase, state, session, metrics, currentTreeCount, fps, timers,
                   completions, resets>>

\* CodeExecutor.validate(code): the text is parsed, nothing is executed
ExecutorValidate ==
    /\ lastOp.op # "validate"
    /\ executor' = [executor EXCEPT !.result = CodeExecutor_parseStudentCode(executor.code)]
    /\ lastOp' = Op("validate")
    /\ UNCHANGED <<parser, cfg, sim, detail, liteMode, heap, written, now, disposed, scene,
                   profiler, phase, state, session, metrics, currentTreeCount, fps, timers,
                   completions, resets>>

\* variant: undo() takes the oldest entry of the history
undoOldest(ex) == [count |-> Head(ex.history), history |-> Tail(ex.history)]

\* undo(): const prev = this.history.pop()
undoPop(ex) ==
    [count |-> ex.history[Len(ex.history)],
     history |-> SubSeq(ex.history, 1, Len(ex.history) - 1)]

\* CodeExecutor.execute(code): the text is parsed; a valid result is saved
\* for undo and applied to the scene, and the fps is captured after 1000 ms
Execute(code) ==
    /\ executor.executes < MaxExecutes
    /\ LET parsed == CodeExecutor_parseStudentCode(code) IN
        IF ~parsed.valid \/ parsed.limit = Null
        THEN /\ lastOp' = [Op("execute") EXCEPT !.result = "failure"]
             /\ UNCHANGED <<executor, currentTreeCount, scene, timers>>
        ELSE /\ executor' =
                    [executor EXCEPT
                        !.history = Append(@, currentTreeCount),
                        !.pending = Append(@, currentTreeCount),
                        !.executes = @ + 1,
                        !.lastResult =
                            [success |-> TRUE, treeCount |-> parsed.limit,
                             previousCount |-> currentTreeCount,
                             fpsBefore |-> OrElse(fps, Null), fpsAfter |-> Null]]
             /\ scene' = spawnTrees(scene, parsed.limit)
             /\ currentTreeCount' = countAfterSpawn(currentTreeCount, parsed.limit)
             /\ timers' = Schedule(timers, [Timer("execFpsAfter", SampleInterval)
                                                EXCEPT !.count = executor.executes + 1])
             /\ lastOp' = [Op("execute") EXCEPT !.valid = TRUE, !.result = "success",
                                                !.arg = parsed.limit]
    /\ UNCHANGED <<parser, cfg, sim, detail, liteMode, heap, written, now, disposed,
                   profiler, phase, state, session, metrics, fps, completions, resets>>

\* the callback execute() schedules: execResult.fpsAfter = profiler.metrics.fps || null
\* (execResult is this.lastResult while no later execute() succeeded)
ExecFpsAfter(i) ==
    /\ CanFire(i)
    /\ timers[i].kind = "execFpsAfter"
    /\ executor' = IF timers[i].count = executor.executes
                    THEN [executor EXCEPT !.lastResult.fpsAfter = OrElse(fps, Null)]
                    ELSE executor
    /\ timers' = RemoveAt(timers, i)
    /\ lastOp' = Op("execFpsAfter")
    /\ UNCHANGED <<parser, cfg, sim, detail, liteMode, heap, written, now, disposed, scene,
                   profiler, phase, state, session, metrics, currentTreeCount, fps,
                   completions, resets>>

\* CodeExecutor.undo()
Undo ==
    /\ IF executor.history = <<>>
       THEN /\ lastOp' = [Op("undo") EXCEPT !.result = "failure"]
            /\ UNCHANGED <<executor, currentTreeCount, scene>>
       ELSE LET prev == undoPop(executor) IN
            /\ executor' = [executor EXCEPT
                                !.history = prev.history,
                                !.pending = SubSeq(@, 1, Len(@) - 1)]
            /\ scene' = spawnTrees(scene, prev.count)
            /\ currentTreeCount' = countAfterSpawn(currentTreeCount, prev.count)
            /\ lastOp' = [Op("undo") EXCEPT !.valid = TRUE, !.result = "success",
                                             !.arg = prev.count]
    /\ UNCHANGED <<parser, cfg, sim, detail, liteMode, heap, written, now, disposed,
                   profiler, phase, state, session, metrics, fps, timers, completions, resets>>

\* PromptParser.parsePrompt(prompt)
ParsePrompt ==
    /\ lastOp.op # "parsePrompt"
    /\ \E r \in parsePrompt(parser.prompt) : parser' = [parser EXCEPT !.params = r]
    /\ lastOp' = Op("parsePrompt")
    /\ UNCHANGED <<cfg, sim, detail, liteMode, heap, written, now, executor, disposed, scene,
                   profiler, phase, state, session, metrics, currentTreeCount, fps, timers,
                   completions, resets>>

\* time passes: Date.now() returns a later value
Tick ==
    /\ "time" \in detail
    /\ now < MaxNow
    /\ now' = now + 1
    /\ lastOp' = Op("tick")
    /\ UNCHANGED <<parser, cfg, sim, detail, liteMode, heap, written, executor, disposed, scene,
                   profiler, phase, state, session, metrics, currentTreeCount, fps, timers,
                   completions, resets>>

\* InfiniteForest.dispose, called by ScenarioManager.loadScenario and
\* _exitScenario on the current scenario: the hint timers are cleared, the
\* UI elements removed, and this.config is set to null
Dispose ==
    /\ ~disposed
    /\ phase \in {"starting", "running"}
    /\ disposed' = TRUE
    /\ timers' = stopHintTimers(timers)
    /\ lastOp' = Op("dispose")
    /\ UNCHANGED <<parser, cfg, sim, detail, liteMode, heap, written, now, executor, scene, profiler, phase, state, session, metrics,
                   currentTreeCount, fps, completions, resets>>

Range(q) == {q[i] : i \in 1..Len(q)}

Levels(hints) == {hints[i].level : i \in 1..Len(hints)}

\* variant: no check for a level that was revealed before
revealHintAgain(s, level) ==
    IF s.completed THEN s
    ELSE IF level \notin Levels(Hints(Config)) THEN s
    ELSE [s EXCEPT !.hintsRevealed = Append(@, level)]

\* InfiniteForest._revealHint
revealHint(s, level) ==
    IF s.completed THEN s
    ELSE IF level \in Range(s.hintsRevealed) THEN s
    ELSE IF level \notin Levels(Hints(Config)) THEN s
    ELSE [s EXCEPT !.hintsRevealed = Append(@, level)]

\* _showHintNotification in _revealHint: the level whose text is notified,
\* 0 when the call returns before it
hintNotification(s, level) ==
    IF s.completed THEN 0
    ELSE IF level \in Range(s.hintsRevealed) THEN 0
    ELSE IF level \notin Levels(Hints(Config)) THEN 0
    ELSE level

\* the manual requests followed: MaxRequests where the hints are followed
RequestCap == IF "hints" \in detail THEN MaxRequests ELSE MaxHints

\* InfiniteForest.requestHint: the lowest level not yet revealed
RequestHint ==
    /\ phase = "running"
    /\ session.hintsShown < RequestCap
    /\ LET available == Levels(Hints(Config)) \ Range(session.hintsRevealed) IN
        IF available = {}
        THEN /\ session' = session
             /\ lastOp' = [Op("requestHint") EXCEPT !.result = "failure"]
        ELSE LET lvl == CHOOSE l \in available : \A m \in available : l <= m IN
             /\ session' = revealHint([session EXCEPT !.hintsShown = @ + 1], lvl)
             /\ lastOp' = [Op("requestHint") EXCEPT !.result = "success",
                                                    !.arg = hintNotification(session, lvl)]
    /\ UNCHANGED <<parser, cfg, sim, detail, liteMode, heap, written, now, executor, disposed, scene, profiler, phase, state, metrics, currentTreeCount, fps, timers,
                   completions, resets>>

\* the callback of a hint timer
HintTimer(i) ==
    /\ CanFire(i)
    /\ timers[i].kind = "hint"
    /\ session' = revealHint(session, timers[i].level)
    /\ timers' = RemoveAt(timers, i)
    /\ lastOp' = [Op("hintTimer") EXCEPT !.arg = hintNotification(session, timers[i].level)]
    /\ UNCHANGED <<parser, cfg, sim, detail, liteMode, heap, written, now, executor, disposed, scene, profiler, phase, state, metrics, currentTreeCount, fps,
                   completions, resets>>

----------------------------------------------------------------------------
(* Specifications *)

TimerStep ==
    \E i \in 1..Len(timers) :
        \/ SpawnBatch(i)
        \/ SessFpsBefore(i)
        \/ BaseFpsBefore(i)
        \/ Sample(i)
        \/ Stabilize(i)
        \/ CheckCompletionTimer(i)
        \/ HintTimer(i)
        \/ ExecFpsAfter(i)

\* the apply pipeline: start, inspect and apply() calls with their timers
Next ==
    \/ Start
    \/ TimerStep
    \/ Inspect
    \/ \E code \in Codes, via \in {"scenario", "manager"} : Apply(code, via)

Spec == Init /\ [][Next]_vars

\* reset and manual hints on top of start and one apply() call, with the
\* simulated profiler; hints are requested while the scenario is not idle
NextReset ==
    \/ Start
    \/ TimerStep
    \/ (session.attempts = 0
            /\ \E code \in {WhileLt(50), WhileTrue} : Apply(code, "scenario"))
    \/ Reset
    \/ (state # "idle" /\ RequestHint)

\* the fallback configuration (300 trees, three hints) with the simulated profiler
InitReset == InitWith("fallback", TRUE)

SpecReset == InitReset /\ [][NextReset]_vars

\* reset() of the completed scenario and reset() again, at any moment of the
\* first reset's ramp-up; fallback configuration, simulated profiler
NextAgain ==
    \/ Start
    \/ TimerStep
    \/ (state = "broken" /\ session.attempts = 0 /\ Apply(WhileLt(50), "scenario"))
    \/ ResetAgain

SpecAgain == InitReset /\ [][NextAgain]_vars

\* _animateInfiniteLoop(target) for every target of a range: start() has
\* cleared the scene and awaits the ramp-up
InitRamp ==
    /\ cfg = "fallback"
    /\ sim = TRUE
    /\ detail = {}
    /\ disposed = FALSE
    /\ scene = EmptyScene
    /\ profiler = NewProfiler
    /\ liteMode = FALSE
    /\ heap = Null
    /\ written = <<>>
    /\ now = 0
    /\ executor = NewExecutor
    /\ parser = NewParser
    /\ phase = "starting"
    /\ state = "idle"
    /\ session = setupSession(NewSession)
    /\ metrics = [fpsBefore |-> Null, fpsAfter |-> Null]
    /\ currentTreeCount = 0
    /\ fps = InitialFps
    /\ \E t \in 0..MaxTarget :
        timers = <<Timer("sample", SampleInterval), [firstBatch("start") EXCEPT !.target = t]>>
    /\ completions = 0
    /\ resets = 0
    /\ lastOp = Op("start")

\* one spawnBatch callback
SpawnStep == \E i \in 1..Len(timers) : SpawnBatch(i)

\* every other timer callback
OtherTimerStep ==
    \E i \in 1..Len(timers) :
        \/ SessFpsBefore(i)
        \/ BaseFpsBefore(i)
        \/ Sample(i)
        \/ HintTimer(i)

NextRamp ==
    \/ SpawnStep
    \/ OtherTimerStep

SpecRamp == InitRamp /\ [][NextRamp]_vars

\* a pending setTimeout callback is run by the event loop
FairRamp == SpecRamp /\ WF_vars(SpawnStep)

\* The end-to-end run: the JSON definition is loaded, the profiler is the
\* simulated one, and the calls are start(), inspect() and one
\* apply("while(treeCount<50){}"), directly or through the ScenarioManager.
InitE2E == InitWith("json", TRUE)

NextE2E ==
    \/ Start
    \/ TimerStep
    \/ (state = "broken" /\ Inspect)
    \/ (state = "inspecting" /\ session.attempts = 0
            /\ \E via \in {"scenario", "manager"} : Apply(WhileLt(50), via))

SpecE2E == InitE2E /\ [][NextE2E]_vars

\* inspect() loads the bug template and apply() is called on it unchanged;
\* fallback configuration, simulated profiler
NextTemplate ==
    \/ Start
    \/ TimerStep
    \/ (state = "broken" /\ Inspect)
    \/ (state = "inspecting" /\ session.attempts = 0
            /\ \E via \in {"scenario", "manager"} : Apply(FallbackCode, via))

SpecTemplate == InitReset /\ [][NextTemplate]_vars

\* spawnTrees calls on the engine's scene, which is followed in full
InitScene == InitDetail("fallback", TRUE, {"scene"})

NextScene == \E n \in SpawnCounts : SpawnTrees(n)

SpecScene == InitScene /\ [][NextScene]_vars

\* the profiler's history followed in full while a scenario starts: the
\* samples are taken at any moment of the ramp-up and after it, and the
\* profiler is reset at any moment
InitProfiler == InitDetail("fallback", TRUE, {"history"})

NextProfiler ==
    \/ Start
    \/ TimerStep
    \/ ProfilerReset

SpecProfiler == InitProfiler /\ [][NextProfiler]_vars

\* the history ring alone: samples with readings that differ from one
\* another, resets at any moment, the written readings recorded
InitRing == InitDetail("fallback", FALSE, {"history", "written"})

NextRing ==
    \/ TimerStep
    \/ ProfilerReset

SpecRing == InitRing /\ [][NextRing]_vars

\* the counters renderer.info reports: an empty scene and two forests
RendererInfos ==
    {[calls |-> 0, triangles |-> 0, geometries |-> 0],
     [calls |-> 2, triangles |-> 900, geometries |-> 4],
     [calls |-> 60, triangles |-> 1500, geometries |-> 4]}

\* the profiler panel: samples on a host with or without a renderer, heap
\* introspection and a panel; the renderer's counters change between
\* samples or stay, and so does the fps reading; reset() at any moment
InitUI ==
    \E r \in RendererInfos \cup {NoInfo}, h \in {Null, 120}, panel \in BOOLEAN :
        InitHost("fallback", FALSE, {"ui"},
                 [NewProfiler EXCEPT !.renderer = r, !.panel = panel], h)

NextUI ==
    \/ TimerStep
    \/ \E info \in RendererInfos : Render(info)
    \/ ProfilerReset

SpecUI == InitUI /\ [][NextUI]_vars

\* the frame counter: frames counted by update(), the interval sampling them
\* after one or more periods, stopped and started in between, and reset()
InitFrames == InitDetail("fallback", FALSE, {"frames", "history", "time"})

NextFrames ==
    \/ Update
    \/ Tick
    \/ TimerStep
    \/ StopUpdates
    \/ StartUpdates
    \/ ProfilerReset

SpecFrames == InitFrames /\ [][NextFrames]_vars

\* the profiler's update control: the calls that start and stop the sampling
\* interval in any order, the interval firing in between
NextUpdates ==
    \/ StartUpdates
    \/ StopUpdates
    \/ Show
    \/ Hide
    \/ ProfilerDispose
    \/ ToggleLiteMode
    \/ TimerStep

SpecUpdates == InitRing /\ [][NextUpdates]_vars

\* the canonical accepted forms, bare and followed by a loop body
CanonicalForms ==
    LET bare == {While(Lt(50)), While(Le(49)), While(Gt(50)), For("<", 50), Assign(50)}
    IN  bare \cup {c \o Body : c \in bare}

\* every recognised pattern with every number of a range
NumberedForms ==
    UNION {{While(Lt(n)), While(Le(n)), While(Gt(n)), While(Ge(n)), While(Ne(n)),
            For("<", n), For("<=", n), Assign(n)} : n \in 0..MaxLimit}

\* the conditions without a number
OtherWhiles ==
    {While(<<Tok("true")>>), While(<<Tok("false")>>), While(<<Tok("running")>>),
     While(<<Tok("treeCount"), Tok(">"), Num(5)>>),
     While(<<Tok("treeCount"), Tok("=="), Num(50)>>), While(<<>>)}

\* texts with comments: the fallback template, a solution inside a block
\* comment, a block comment opened inside a line comment, a "//" inside a
\* block comment, and a block comment whose "*/" follows "//" on its line
Eol == <<Tok("eol")>>

CommentedCodes ==
    {FallbackCode,
     <<Tok("/*")>> \o While(Lt(50)) \o <<Tok("*/")>> \o Eol \o While(<<Tok("true")>>),
     <<Tok("//"), Tok("/*")>> \o Eol \o While(Lt(50)) \o Eol \o <<Tok("//"), Tok("*/")>>,
     <<Tok("/*"), Tok("text"), Tok("//"), Tok("text"), Tok("*/")>> \o While(Lt(50)),
     <<Tok("/*")>> \o Eol \o While(Lt(50)) \o Eol \o <<Tok("//"), Tok("*/")>> \o Eol
        \o While(<<Tok("true")>>)}

\* texts with more than one pattern: a while loop with a for loop and an
\* assignment after or before it, two while loops, an unparsable while loop
\* before a for loop, a while loop whose condition is broken over two lines,
\* a for loop with an assignment, and a text with none of them
SplitWhile ==
    <<Tok("while"), Tok("("), Tok("treeCount"), Tok("<")>> \o Eol \o <<Num(50), Tok(")")>>

PriorityCodes ==
    {While(Lt(50)) \o Body \o For("<", 10) \o Body \o Assign(5),
     For("<", 10) \o Body \o Assign(5) \o While(Lt(50)) \o Body,
     While(Lt(20)) \o Body \o While(Lt(50)) \o Body,
     While(<<Tok("running")>>) \o Body \o For("<", 10) \o Body \o Assign(5),
     SplitWhile \o Body \o Eol \o For("<", 10) \o Body,
     For("<", 10) \o Body \o Assign(5),
     Assign(5) \o For("<=", 10) \o Body,
     Body}

ExecutorCodes ==
    CanonicalForms \cup NumberedForms \cup OtherWhiles \cup CommentedCodes \cup PriorityCodes

\* CodeExecutor.parseStudentCode applied to every text of ExecutorCodes
InitExecutor ==
    \E c \in ExecutorCodes :
        InitEngine("fallback", FALSE, {}, NewProfiler, Null, [NewExecutor EXCEPT !.code = c])

NextExecutor == ExecutorValidate

SpecExecutor == InitExecutor /\ [][NextExecutor]_vars

\* the texts execute() is called with: valid ones with different limits, one
\* above the cap, and texts without a loop or a tree count
ExecuteCodes ==
    {While(Lt(5)), While(Le(49)), Assign(200), While(Lt(MaxLimit)),
     While(<<Tok("running")>>), <<Tok("trees")>>}

\* the executor on the scene of the engine: execute() and undo() in any
\* order, the timers firing in between
InitUndo == InitWith("fallback", TRUE)

NextUndo ==
    \/ \E code \in ExecuteCodes : Execute(code)
    \/ Undo
    \/ TimerStep

SpecUndo == InitUndo /\ [][NextUndo]_vars

\* the fix forms without comments, given both to the scenario's apply()
\* and to the executor
PipelineCodes == CanonicalForms \cup NumberedForms

\* the running scenario in its broken state, the student's text in the
\* editor: apply() and CodeExecutor.validate() are called with the same text
InitPipeline ==
    /\ cfg \in {"json", "fallback"}
    /\ sim = TRUE
    /\ detail = {}
    /\ disposed = FALSE
    /\ scene = EmptyScene
    /\ profiler = NewProfiler
    /\ liteMode = FALSE
    /\ heap = Null
    /\ written = <<>>
    /\ now = 0
    /\ \E c \in PipelineCodes : executor = [NewExecutor EXCEPT !.code = c]
    /\ parser = NewParser
    /\ phase = "running"
    /\ state = "inspecting"
    /\ session = markCheckpoint(NewSession, "scene_loaded")
    /\ metrics = [fpsBefore |-> Null, fpsAfter |-> Null]
    /\ currentTreeCount = Validation(cfg).initialTreeCount
    /\ fps = SimFps(Validation(cfg).initialTreeCount)
    /\ timers = <<Timer("sample", SampleInterval)>>
    /\ completions = 0
    /\ resets = 0
    /\ lastOp = Op("init")

NextPipeline ==
    \/ (session.attempts = 0 /\ Apply(executor.code, "scenario"))
    \/ ExecutorValidate

SpecPipeline == InitPipeline /\ [][NextPipeline]_vars

\* the checkpoints of a session with their time stamps: start(), inspect()
\* and apply() calls with a valid text, one reset(), time passing in between
InitCheckpoints == InitDetail("json", TRUE, {"time"})

NextCheckpoints ==
    \/ Start
    \/ TimerStep
    \/ (state = "broken" /\ Inspect)
    \/ (state = "inspecting" /\ Apply(WhileLt(50), "scenario"))
    \/ (state = "complete" /\ resets = 0 /\ Reset)
    \/ Tick

SpecCheckpoints == InitCheckpoints /\ [][NextCheckpoints]_vars

\* the numbers written in the prompts: around the lower bound, the default
\* count and the upper bound
PromptNumbers == {0, 1, 24, 25, 26, 75, 499, 500, 501, MaxPrompt}

\* what a prompt says of the count: nothing, a number, "about" a number
CountParts ==
    {<<>>} \cup {<<Num(n)>> : n \in PromptNumbers}
        \cup {<<Tok("about"), Num(n)>> : n \in {25, 26}}
        \cup {<<Tok("-"), Num(5)>>, <<Num(2), Tok("."), Num(5)>>}

\* density and quantity words, size, arrangement and tree type words
DensityParts ==
    {<<>>, <<Tok("dense")>>, <<Tok("Dense")>>, <<Tok("sparse")>>, <<Tok("many")>>,
     <<Tok("few")>>, <<Tok("lots"), Tok("of")>>, <<Tok("spread"), Tok("out")>>,
     <<Tok("some")>>}

KeywordParts ==
    {<<>>, <<Tok("pine")>>, <<Tok("varied"), Tok(","), Tok("oak")>>, <<Tok("mixed")>>}

NounParts ==
    {<<>>, <<Tok("trees")>>, <<Tok("a"), Tok("tree")>>, <<Tok("forest"), Tok("!")>>,
     <<Tok("trees"), Tok("in"), Tok("a"), Tok("grid")>>}

\* the prompts: a verb, the count before or after the density words, the
\* keywords and the noun
Prompts ==
    {<<Tok("Create")>> \o c \o d \o k \o n :
        c \in CountParts, d \in DensityParts, k \in KeywordParts, n \in NounParts}
    \cup {<<Tok("Spawn")>> \o d \o k \o n \o <<Tok("with")>> \o c :
        c \in CountParts \ {<<>>}, d \in DensityParts, k \in KeywordParts, n \in NounParts}

\* PromptParser.parsePrompt applied to every prompt of Prompts
InitPrompt ==
    \E p \in Prompts :
        InitAll("fallback", FALSE, {}, NewProfiler, Null, NewExecutor,
                [prompt |-> p, params |-> NewParams])

NextPrompt == ParsePrompt

SpecPrompt == InitPrompt /\ [][NextPrompt]_vars

\* the hints of a session: the three timed hints of the fallback
\* configuration, manual requests at any moment, one apply() call that
\* completes the session and one reset()
InitHints == InitDetail("fallback", TRUE, {"hints"})

NextHints ==
    \/ Start
    \/ TimerStep
    \/ RequestHint
    \/ (session.attempts = 0 /\ Apply(WhileLt(50), "scenario"))
    \/ (resets = 0 /\ Reset)

SpecHints == InitHints /\ [][NextHints]_vars

\* the used heap the host reports: absent, or a size below, between and
\* above the memory thresholds
HeapValues == {Null, 120, 320, 380}

\* the memory reading: samples on a host with and without performance.memory,
\* getMetrics called at any moment
InitMemory ==
    \E h \in HeapValues :
        InitHost("fallback", FALSE, {"history", "written"}, NewProfiler, h)

NextMemory ==
    \/ TimerStep
    \/ GetMetrics

SpecMemory == InitMemory /\ [][NextMemory]_vars

\* renderer counters whose draw calls fall in each band of the thresholds
StatusInfos ==
    RendererInfos \cup {[calls |-> 90, triangles |-> 1500, geometries |-> 4]}

\* the test suite reading the status of a profiler that samples the fps, a
\* renderer and the heap; the renderer's counters change between samples
InitStatus ==
    \E r \in StatusInfos, h \in HeapValues :
        InitHost("fallback", FALSE, {"ui"}, [NewProfiler EXCEPT !.renderer = r], h)

NextStatus ==
    \/ TimerStep
    \/ \E info \in StatusInfos : Render(info)
    \/ GetOverallStatus

SpecStatus == InitStatus /\ [][NextStatus]_vars

\* getHealth called with every metric and every value of a range, for the
\* thresholds of the constructor and for edited ones
InitHealth ==
    \E t \in {DefaultThresholds, EditedThresholds} :
        InitHost("fallback", FALSE, {}, [NewProfiler EXCEPT !.thresholds = t], Null)

NextHealth ==
    \E metric \in Metrics, value \in (0 - 1)..MaxHealth : GetHealth(metric, value)

SpecHealth == InitHealth /\ [][NextHealth]_vars

\* dispose() at any moment of a scenario that was started, during its
\* ramp-up included, and one apply() before it; the timers keep firing
NextDispose ==
    \/ Start
    \/ TimerStep
    \/ (~disposed /\ state = "broken" /\ session.attempts = 0
            /\ Apply(WhileLt(50), "scenario"))
    \/ Dispose

SpecDispose == InitE2E /\ [][NextDispose]_vars

\* validate() and checkCompletion() called directly, for every fps reading
\* and tree count of a range, in a running scenario
InitValidate ==
    /\ cfg \in {"json", "fallback"}
    /\ sim = FALSE
    /\ detail = {}
    /\ disposed = FALSE
    /\ scene = EmptyScene
    /\ profiler = NewProfiler
    /\ liteMode = FALSE
    /\ heap = Null
    /\ written = <<>>
    /\ now = 0
    /\ executor = NewExecutor
    /\ parser = NewParser
    /\ phase = "running"
    /\ state \in {"broken", "inspecting"}
    /\ session = markCheckpoint(NewSession, "scene_loaded")
    /\ metrics = [fpsBefore |-> Null, fpsAfter |-> Null]
    /\ currentTreeCount \in 0..MaxCount
    /\ fps \in 0..MaxFps
    /\ timers = <<Timer("sample", SampleInterval)>>
    /\ completions = 0
    /\ resets = 0
    /\ lastOp = Op("init")

NextValidate ==
    \/ Validate
    \/ CheckCompletion

SpecValidate == InitValidate /\ [][NextValidate]_vars

----------------------------------------------------------------------------
(* Properties *)

\* C1 (SpecE2E): once start(), inspect() and apply("while(treeCount<50){}")
\* have run and the stabilization and completion-check timers have fired,
\* the state is 'complete', the population is 50 and exactly one completion
\* record was emitted, whether apply ran directly or through applyStudentFix.
E2EDone ==
    /\ session.attempts = 1
    /\ Pending("stabilize") = {}
    /\ Pending("checkCompletion") = {}

C5_SecondApplyRejected ==
    [][(lastOp'.op = "apply" /\ Pending("stabilize") # {}) =>
        (currentTreeCount' = currentTreeCount /\ timers' = timers /\ lastOp'.result = "busy")]_vars

\* C6 (Spec): apply() with code the parser rejects leaves state, population
\* and timers unchanged, reports the error and returns failure.
C6_InvalidApplyNoEffect ==
    [][(lastOp'.op = "apply" /\ ~lastOp'.valid) =>
        /\ state' = state
        /\ currentTreeCount' = currentTreeCount
        /\ timers' = timers
        /\ completions' = completions
        /\ lastOp'.result = "failure"
        /\ lastOp'.log = "error"]_vars

C6_Witness ==
    /\ lastOp.op = "apply"
    /\ ~lastOp.valid
    /\ lastOp.result = "failure"
    /\ state = "inspecting"
    /\ currentTreeCount > 0

\* C7 (Spec): apply() with valid code in state 'inspecting' moves the state
\* to 'fixed' at once, before the stabilization delay elapses.
C7_ValidApplyFixed ==
    [][(lastOp'.op = "apply" /\ lastOp'.valid /\ state = "inspecting") => state' = "fixed"]_vars

\* C8 (Spec), as stated: an apply() whose code is invalid leaves the
\* attempts counter unchanged.
C8_InvalidApplyKeepsAttempts ==
    [][(lastOp'.op = "apply" /\ ~lastOp'.valid) =>
        session'.attempts = session.attempts]_vars

\* C8 (Spec), amended: every apply() call, valid or not, increments the
\* attempts counter by exactly one, and no other step changes it.
C8_EveryApplyCounts ==
    [][session'.attempts = session.attempts + (IF lastOp'.op = "apply" THEN 1 ELSE 0)]_vars

C8_Witness ==
    /\ lastOp.op = "apply"
    /\ ~lastOp.valid
    /\ session.attempts = 2

\* C9 (SpecReset): when the ramp-up started by reset() has finished, the
\* state is 'broken'.
C9_ResetEndsBroken ==
    lastOp.op = "setupDone" => state = "broken"

RampTarget(t) == \E i \in Pending("spawnBatch") : timers[i].target = t

RampResolved(t) == Pending("spawnBatch") = {} /\ currentTreeCount = t

C12_RampUpExact ==
    /\ \A t \in 0..MaxTarget : RampTarget(t) ~> RampResolved(t)
    /\ [](\A i \in Pending("spawnBatch") : currentTreeCount <= timers[i].target)

C12_Witness ==
    /\ lastOp.op = "startDone"
    /\ Pending("spawnBatch") = {}
    /\ currentTreeCount > BatchSize
    /\ currentTreeCount % BatchSize # 0

\* C13 (SpecReset): reset() cancels a pending stabilization callback: right
\* after a reset() no stabilization timer is scheduled, so the validate() of
\* an earlier apply() cannot run in the reset session.
C13_ResetCancelsStabilize ==
    [][lastOp'.op = "reset" =>
        \A i \in 1..Len(timers') : timers'[i].kind # "stabilize"]_vars

\* C14 (SpecDispose): after dispose() no timer of the scenario is scheduled;
\* only the profiler's own sampling interval remains.
C14_DisposeClearsTimers ==
    disposed => \A i \in 1..Len(timers) : timers[i].kind = "sample"

\* C15 (Spec): when the definition could not be loaded, start() still ends
\* in 'broken' with the default initial count of 300 trees, and the
\* validate() of an apply succeeds exactly when fps >= 45 and the count is
\* within the default range 10..175.
C15_FallbackDefaults ==
    [][cfg = "fallback" =>
        /\ lastOp'.op = "startDone" =>
                (state' = "broken" /\ phase' = "running" /\ currentTreeCount' = 300)
        /\ lastOp'.op = "stabilize" =>
                ((lastOp'.result = "success") <=>
                    (fps >= 45 /\ currentTreeCount >= 10 /\ currentTreeCount <= 175))]_vars

C15_Witness ==
    /\ cfg = "fallback"
    /\ lastOp.op = "stabilize"
    /\ lastOp.result = "failure"
    /\ fps = 45
    /\ currentTreeCount = 5

\* C16 (SpecTemplate): apply() of the unchanged bug template is rejected: it
\* is not valid, does not respawn the population, and the scenario never
\* becomes 'complete'.
C16_TemplateRejected ==
    [][/\ lastOp'.op = "apply" =>
            (~lastOp'.valid /\ currentTreeCount' = currentTreeCount)
       /\ state' # "complete"]_vars

\* C17 (SpecScene): after spawnTrees(N) with N >= 0, currentTreeCount = N,
\* the referenced pair has N instances in both batches, the transforms of
\* the instances 0..N-1 were set in both, and exactly two batches are
\* attached to the scene.
C17_SpawnExact ==
    [][(lastOp'.op = "spawnTrees" /\ lastOp'.arg >= 0) =>
        /\ currentTreeCount' = lastOp'.arg
        /\ scene'.mesh = Len(scene'.pairs)
        /\ scene'.pairs[scene'.mesh].count = lastOp'.arg
        /\ scene'.pairs[scene'.mesh].trunk = 0..(lastOp'.arg - 1)
        /\ scene'.pairs[scene'.mesh].foliage = 0..(lastOp'.arg - 1)
        /\ AttachedBatches(scene') = {<<scene'.mesh, "trunk">>, <<scene'.mesh, "foliage">>}]_vars

C17_Witness ==
    /\ lastOp.op = "spawnTrees"
    /\ lastOp.arg = 0
    /\ currentTreeCount = 0
    /\ scene.pairs[scene.mesh].trunk = {}
    /\ Cardinality(AttachedBatches(scene)) = 2

\* C18 (SpecScene): after any sequence of spawnTrees calls that all
\* allocated, exactly one pair is live: the last one is referenced and
\* attached, every earlier pair is out of the scene with each geometry and
\* material disposed exactly once, and every pair was allocated after the
\* pairs before it had been released.
NoFailedSpawn == scene.calls = Len(scene.pairs)

C18_OneLivePair ==
    NoFailedSpawn =>
        /\ scene.mesh = Len(scene.pairs)
        /\ \A k \in 1..Len(scene.pairs) :
            /\ scene.pairs[k].afterRelease
            /\ scene.pairs[k].trunkAttached = (k = scene.mesh)
            /\ scene.pairs[k].foliageAttached = (k = scene.mesh)
            /\ \A q \in Parts :
                scene.pairs[k].disposals[q] = (IF k = scene.mesh THEN 0 ELSE 1)

C18_Witness ==
    /\ NoFailedSpawn
    /\ Len(scene.pairs) = 4
    /\ scene.pairs[2].count = 500
    /\ scene.pairs[3].count = 0
    /\ scene.pairs[4].count = 50

\* C19 (SpecScene): a spawnTrees call that fails to allocate leaves the
\* engine as it was: the count, the batch pairs and the referenced pair
\* are unchanged.
C19_FailedSpawnNoEffect ==
    [][(lastOp'.op = "spawnTrees" /\ lastOp'.result = "throws") =>
        /\ currentTreeCount' = currentTreeCount
        /\ scene'.pairs = scene.pairs
        /\ scene'.mesh = scene.mesh]_vars

\* C20 (SpecProfiler): the fps history always holds 60 entries and the write
\* cursor is in 0..59; a sample writes the new reading into the slot at the
\* cursor, leaves every other slot as it was and moves the cursor on by one
\* modulo 60; a reset keeps the 60 entries.
C20_HistoryRing ==
    [][/\ Len(profiler'.fpsHistory) = 60
       /\ profiler'.historyIndex \in 0..59
       /\ lastOp'.op = "sample" =>
            /\ profiler'.historyIndex = (profiler.historyIndex + 1) % 60
            /\ profiler'.fpsHistory[profiler.historyIndex + 1] = fps'
            /\ \A k \in 1..60 :
                k # profiler.historyIndex + 1 =>
                    profiler'.fpsHistory[k] = profiler.fpsHistory[k]]_vars

C20_Witness ==
    /\ lastOp.op = "sample"
    /\ profiler.historyIndex = 1
    /\ profiler.fpsHistory[1] = 40
    /\ profiler.fpsHistory[2] = 60
    /\ profiler.fpsHistory[60] = 40

\* C21 (SpecRing): with n readings written since creation or reset, the slots
\* (cursor + i) mod 60, i = 0..59, are 60 different slots and read, oldest
\* first, the last 60 written readings when n >= 60, and the 60 - n default
\* entries followed by the n written readings when n < 60.
C21_ChronologicalRead ==
    LET n == Len(written)
        slots == {(profiler.historyIndex + i) % 60 : i \in 0..59}
    IN  /\ Cardinality(slots) = 60
        /\ drawGraph(profiler) =
              IF n >= 60
              THEN [i \in 1..60 |-> written[n - 60 + i]]
              ELSE [i \in 1..60 |-> IF i <= 60 - n THEN 60 ELSE written[i - (60 - n)]]

C21_Witness ==
    /\ lastOp.op = "sample"
    /\ Len(written) = 65
    /\ profiler.historyIndex = 5
    /\ drawGraph(profiler)[1] = written[6]
    /\ drawGraph(profiler)[60] = written[65]

\* C22 (SpecHealth): for the thresholds stored, getHealth('fps', v) is healthy
\* iff v >= green, warning iff yellow <= v < green and critical iff v < yellow;
\* for memory and drawCalls it is healthy iff v < green, warning iff green <= v <
\* yellow and critical iff v >= yellow.  With the default thresholds fps 45 is
\* healthy, 44 warning, 29 critical, drawCalls 49 healthy and 50 warning.
C22_HealthClasses ==
    lastOp.op = "getHealth" =>
        LET t == profiler.thresholds[lastOp.log]
            v == lastOp.arg
            c == lastOp.result
        IN  /\ c \in {"healthy", "warning", "critical"}
            /\ lastOp.log = "fps" =>
                /\ c = "healthy" <=> v >= t.green
                /\ c = "warning" <=> (t.yellow <= v /\ v < t.green)
                /\ c = "critical" <=> v < t.yellow
            /\ lastOp.log # "fps" =>
                /\ c = "healthy" <=> v < t.green
                /\ c = "warning" <=> (t.green <= v /\ v < t.yellow)
                /\ c = "critical" <=> v >= t.yellow
            /\ profiler.thresholds = DefaultThresholds =>
                /\ (lastOp.log = "fps" /\ v = 45) => c = "healthy"
                /\ (lastOp.log = "fps" /\ v = 44) => c = "warning"
                /\ (lastOp.log = "fps" /\ v = 29) => c = "critical"
                /\ (lastOp.log = "drawCalls" /\ v = 49) => c = "healthy"
                /\ (lastOp.log = "drawCalls" /\ v = 50) => c = "warning"

C22_Witness ==
    /\ lastOp.op = "getHealth"
    /\ lastOp.log = "fps"
    /\ lastOp.arg = 45
    /\ lastOp.result = "healthy"
    /\ profiler.thresholds.fps.green = 45

\* the calls that start the sampling, and those that stop it
StartCall(op, lite) ==
    op \in {"startUpdates", "show"} \/ (op = "toggleLiteMode" /\ ~lite)
StopCall(op, lite) ==
    op \in {"stopUpdates", "hide", "profilerDispose"} \/ (op = "toggleLiteMode" /\ lite)

\* C23 (SpecUpdates): at most one sampling interval is scheduled; after a
\* start call (startUpdates, show, lite mode off) one is scheduled, after a stop
\* call (stopUpdates, hide, dispose, lite mode on) none is, and a sample leaves
\* the interval scheduled; while none is scheduled no step changes the fps
\* reading, the memory reading, the history or the cursor.
C23_OneIntervalWhileStarted ==
    [][/\ SampleTimers(timers') <= 1
       /\ StartCall(lastOp'.op, liteMode') => SampleTimers(timers') = 1
       /\ StopCall(lastOp'.op, liteMode') => SampleTimers(timers') = 0
       /\ lastOp'.op = "sample" => (SampleTimers(timers) = 1 /\ SampleTimers(timers') = 1)
       /\ SampleTimers(timers) = 0 =>
            /\ lastOp'.op # "sample"
            /\ fps' = fps
            /\ profiler'.memory = profiler.memory
            /\ profiler'.fpsHistory = profiler.fpsHistory
            /\ profiler'.historyIndex = profiler.historyIndex]_vars

C23_Witness ==
    /\ lastOp.op = "sample"
    /\ ~profiler.visible
    /\ ~liteMode
    /\ Len(written) = 3
    /\ SampleTimers(timers) = 1

\* C24 (SpecMemory): on a host without performance.memory the memory metric
\* is null after every sample, and getMetrics does not classify it as a
\* number of megabytes.
C24_NullMemoryWithoutHeap ==
    heap = Null =>
        /\ lastOp.op = "sample" => profiler.memory = Null
        /\ lastOp.op = "getMetrics" =>
                lastOp.result \notin {"healthy", "warning", "critical"}

\* C25 (SpecExecutor): for each canonical accepted form, `while (treeCount <
\* 50)`, `while (treeCount <= 49)`, `while (50 > treeCount)`, `for (int i = 0;
\* i < 50; i++)` and `maxTrees = 50`, the parse is valid with limit 50.
C25_CanonicalFormsGive50 ==
    (lastOp.op = "validate" /\ executor.code \in CanonicalForms) =>
        /\ executor.result.valid
        /\ executor.result.limit = 50

C25_Witness ==
    /\ lastOp.op = "validate"
    /\ executor.code = While(Le(49))
    /\ executor.result.valid
    /\ executor.result.limit = 50
    /\ executor.result.pattern = "while"

\* the texts whose computed limit exceeds the cap
OverCap ==
    UNION {{While(Lt(n)), While(Gt(n)), While(Ne(n)), For("<", n), Assign(n)} :
                n \in (maxTreeLimit + 1)..MaxLimit}
    \cup UNION {{While(Le(n)), While(Ge(n)), For("<=", n)} : n \in maxTreeLimit..MaxLimit}

\* a warning that names the cap
CapWarnings == {"Capped at 1000 trees for safety", "Safety cap: spawning 1000 trees"}

\* C26 (SpecExecutor): for every recognised pattern (while, for, assignment)
\* whose computed limit exceeds the cap 1000, the limit is 1000 and a warning
\* names the cap; for `while (true)` the limit is 1000 and errors is not
\* empty; a returned limit is always within 0..1000.
C26_ClampWarns ==
    lastOp.op = "validate" =>
        /\ executor.code \in OverCap =>
            /\ executor.result.limit = 1000
            /\ \E k \in 1..Len(executor.result.warnings) :
                    executor.result.warnings[k] \in CapWarnings
        /\ executor.code = While(<<Tok("true")>>) =>
            /\ executor.result.limit = 1000
            /\ executor.result.errors # <<>>
        /\ executor.result.limit # Null => executor.result.limit \in 0..1000

\* the warnings addPerformanceWarnings adds
PerformanceWarnings == {"500+ trees", "300+ trees", "175+ trees", "Good choice"}

\* C27 (SpecExecutor): for every N whose result stays below the cap, the while
\* conditions `IDENT < N` and `N > IDENT` give limit N, `IDENT <= N` and `N >=
\* IDENT` give N + 1, `IDENT != N` gives N with a warning of lower confidence,
\* `true` gives the cap with an error and a cap warning, `false` gives 0 with
\* a warning, and any other condition is invalid with an error that suggests
\* the canonical form.
C27_ConditionShapes ==
    lastOp.op = "validate" =>
        LET r == executor.result IN
        /\ \A n \in 0..(maxTreeLimit - 2) :
            /\ executor.code \in {While(Lt(n)), While(Gt(n))} => (r.valid /\ r.limit = n)
            /\ executor.code \in {While(Le(n)), While(Ge(n))} => (r.valid /\ r.limit = n + 1)
            /\ executor.code = While(Ne(n)) =>
                /\ r.valid
                /\ r.limit = n
                /\ \E k \in 1..Len(r.warnings) : r.warnings[k] \notin PerformanceWarnings
        /\ executor.code = While(<<Tok("true")>>) =>
            /\ r.limit = maxTreeLimit
            /\ r.errors # <<>>
            /\ \E k \in 1..Len(r.warnings) : r.warnings[k] \in CapWarnings
        /\ executor.code = While(<<Tok("false")>>) =>
            (r.valid /\ r.limit = 0 /\ r.warnings # <<>>)
        /\ executor.code \in OtherWhiles \ {While(<<Tok("true")>>), While(<<Tok("false")>>)} =>
            /\ ~r.valid
            /\ \E k \in 1..Len(r.errors) : r.errors[k] = "Try: treeCount < 50"

\* C28 (SpecExecutor): text inside `//` and `/* */` comments never contributes:
\* the result for a text is the result for the same text with every comment
\* removed.
C28_CommentsIgnored ==
    lastOp.op = "validate" =>
        executor.result =
            CodeExecutor_parseStudentCode(withoutComments(executor.code, 1, "code"))

\* the text holds a `while (...)`: the word, an opening parenthesis and a
\* closing one; FirstWhile is the condition of the first of them
HasWhile(code) ==
    \E i \in 1..Len(code) :
        /\ code[i].s = "while"
        /\ i + 1 <= Len(code)
        /\ code[i + 1].s = "("
        /\ \E k \in (i + 2)..Len(code) : code[k].s = ")"

FirstWhile(code) ==
    LET i == CHOOSE a \in 1..Len(code) :
                /\ code[a].s = "while" /\ a + 1 <= Len(code) /\ code[a + 1].s = "("
                /\ \E k \in (a + 2)..Len(code) : code[k].s = ")"
                /\ \A b \in 1..(a - 1) :
                      ~(code[b].s = "while" /\ code[b + 1].s = "("
                        /\ \E k \in (b + 2)..Len(code) : code[k].s = ")")
        e == CHOOSE k \in (i + 2)..Len(code) :
                /\ code[k].s = ")"
                /\ \A m \in (i + 2)..(k - 1) : code[m].s # ")"
    IN  SubSeq(code, i + 2, e - 1)

\* C29 (SpecExecutor): for a text without comments, when it holds a `while
\* (...)` the result is the one of the first while condition alone, also when
\* that condition is unparsable; the for header decides only when there is no
\* while, the assignment only when there is neither, and when there is none
\* of them the result is invalid with the generic error.
C29_PriorityOrder ==
    (lastOp.op = "validate" /\ executor.code = withoutComments(executor.code, 1, "code")) =>
        LET text == Joined(executor.code)
            r == executor.result
        IN  /\ HasWhile(text) => r = parseWhile(FirstWhile(text))
            /\ (~HasWhile(text) /\ forMatch(text) > 0) => r.pattern = "for"
            /\ (~HasWhile(text) /\ forMatch(text) = 0 /\ assignMatch(text) > 0) =>
                    r.pattern = "assignment"
            /\ (~HasWhile(text) /\ forMatch(text) = 0 /\ assignMatch(text) = 0) =>
                    /\ ~r.valid
                    /\ r.pattern = "none"
                    /\ r.errors[1] = "Couldn't find a loop or tree count."

\* the record stored for checkpoint id
RecordOf(s, id) == CHOOSE r \in s.records : r.id = id

\* C30 (SpecCheckpoints): a step that reaches a checkpoint already recorded
\* leaves its record unchanged; between two session starts (setup() of
\* start() and reset()) the checkpoints only grow and startTime stays; every
\* record has one entry per checkpoint and its elapsed is its time stamp less
\* the session's startTime.
C30_CheckpointsFirstWriteWins ==
    [][/\ lastOp'.op \notin {"start", "reset"} =>
            /\ session.checkpoints \subseteq session'.checkpoints
            /\ session.records \subseteq session'.records
            /\ session'.startTime = session.startTime
       /\ {r.id : r \in session'.records} = session'.checkpoints
       /\ Cardinality(session'.records) = Cardinality(session'.checkpoints)
       /\ \A r \in session'.records :
            /\ session'.startTime # Null
            /\ r.elapsed = r.timestamp - session'.startTime
            /\ r.elapsed >= 0]_vars

C30_Witness ==
    /\ lastOp.op = "apply"
    /\ session.attempts = 2
    /\ session.startTime = 1
    /\ now = 3
    /\ RecordOf(session, "code_applied") = [id |-> "code_applied", timestamp |-> 2, elapsed |-> 1]
    /\ RecordOf(session, "inspect_code").timestamp = 1

\* the levels of the configured hints that the session has not revealed
Unrevealed(s) == Levels(Hints(Config)) \ Range(s.hintsRevealed)

Lowest(S) == CHOOSE l \in S : \A m \in S : l <= m

NoDuplicates(q) == \A i, j \in 1..Len(q) : q[i] = q[j] => i = j

IsPrefix(p, q) == Len(p) <= Len(q) /\ SubSeq(q, 1, Len(p)) = p

\* C31: hintsRevealed never holds a level twice.  A hint timer that fires
\* for a level already revealed changes nothing and notifies nothing; a
\* manual request that reveals a level reveals the lowest one not yet
\* revealed, and it does reveal one while the session is not completed and
\* a level is left; a level is notified only in the step that adds it to
\* hintsRevealed, and within a session (between start() and reset())
\* hintsRevealed only grows, so that a level is notified at most once.
C31_HintsRevealedOnce ==
    [][/\ NoDuplicates(session'.hintsRevealed)
       /\ lastOp'.op = "hintTimer" =>
            \A i \in 1..Len(timers) :
                (/\ CanFire(i) /\ timers[i].kind = "hint" /\ timers' = RemoveAt(timers, i)
                 /\ timers[i].level \in Range(session.hintsRevealed))
                    => session' = session /\ lastOp'.arg = 0
       /\ lastOp'.op = "requestHint" =>
            /\ session'.hintsRevealed # session.hintsRevealed =>
                    session'.hintsRevealed =
                        Append(session.hintsRevealed, Lowest(Unrevealed(session)))
            /\ (~session.completed /\ Unrevealed(session) # {}) =>
                    session'.hintsRevealed # session.hintsRevealed
       /\ (lastOp'.op \in {"hintTimer", "requestHint"} /\ lastOp'.arg # 0) =>
            /\ lastOp'.arg \notin Range(session.hintsRevealed)
            /\ session'.hintsRevealed = Append(session.hintsRevealed, lastOp'.arg)
       /\ lastOp'.op \notin {"start", "reset"} =>
            IsPrefix(session.hintsRevealed, session'.hintsRevealed)]_vars

\* two manual requests have revealed levels 1 and 2, and the timers of both
\* levels have fired since: the second one has just fired and notified nothing
C31_Witness ==
    /\ lastOp.op = "hintTimer"
    /\ lastOp.arg = 0
    /\ ~session.completed
    /\ session.hintsShown = 2
    /\ session.hintsRevealed = <<1, 2>>
    /\ Cardinality(Pending("hint")) = 1

HasNumber(p) == Numbers(normalizePrompt(p)) # {}

\* C32: for every prompt that holds a number N (its first), parsePrompt
\* returns treeCount = min(max(N, 1), 500), whatever other keywords it holds.
C32_ExplicitNumberWins ==
    (lastOp.op = "parsePrompt" /\ HasNumber(parser.prompt)) =>
        parser.params.treeCount =
            Min(Max(FirstNumber(normalizePrompt(parser.prompt)), 1), maxPromptTrees)

\* C33: a sample with elapsed > 0 sets fps to the rounded quotient of the
\* frames update() counted since the previous sample (times 1000) by the
\* milliseconds elapsed since the previous sample, sets the frame counter
\* to 0 and the time baseline to now, and advances the history cursor by one
\* modulo 60, whatever update(), stopUpdates(), startUpdates() and reset()
\* calls come in between.
C33_SampleRate ==
    [][(lastOp'.op = "sample" /\ perfNow - profiler.lastFpsTime > 0) =>
            /\ fps' = Round(profiler.counted * 1000, perfNow - profiler.lastFpsTime)
            /\ profiler'.frameCount = 0
            /\ profiler'.lastFpsTime = perfNow
            /\ profiler'.historyIndex = (profiler.historyIndex + 1) % HistoryLen]_vars

\* C34: updateUI writes an element only when the value it shows differs
\* from the value written to that element last; a sample whose metric
\* values equal those of the sample before it writes no element.
C34_NoRedundantWrites ==
    [][lastOp'.op = "sample" =>
            \A e \in lastOp'.writes : profiler'.elements[e] # profiler.elements[e]]_vars

\* the messages that tell of too many trees
TooManyMessages == {"still too many", "still causing lag"}

\* C35: when validate() fails the state does not become complete and the
\* feedback names the cause: a count above max gives a too-many message, a
\* count below min gives the too-few message, and a count inside the range
\* with fps below targetFPS gives the FPS message, for every fps and count.
C35_FeedbackNamesCause ==
    [][(lastOp'.op = "validate" /\ lastOp'.result = "failure") =>
            LET f == OrElse(fps, 0)
                n == OrElse(currentTreeCount, 0)
                v == Validation(cfg)
            IN  /\ state # "complete" => state' # "complete"
                /\ n > v.max => lastOp'.message \in TooManyMessages
                /\ n < v.min => lastOp'.message = "a bit empty"
                /\ (n >= v.min /\ n <= v.max /\ f < v.targetFPS) => lastOp'.message = "fps"]_vars

\* C36: for every fix form the executor accepts, the tree count the
\* scenario's apply() leaves equals the limit CodeExecutor.parseStudentCode
\* computes for the same text (apply() and validate() have both been called).
C36_PipelineUsesExtractorLimit ==
    (session.attempts = 1 /\ executor.result # NewResult /\ executor.result.valid) =>
        currentTreeCount = executor.result.limit

Last(q) == q[Len(q)]

\* C39: an execute() with valid code sets the population to the parsed
\* limit, and an undo() right after it restores the count that execute
\* found; every successful undo() restores the count found by the latest
\* execute not yet undone, so that n executes followed by n undos give back
\* the original count in last-in-first-out order; undo() with an empty
\* history fails and changes nothing; an execute() with invalid code
\* changes neither the population nor the history.
C39_ExecuteUndo ==
    [][/\ (lastOp'.op = "execute" /\ lastOp'.valid) =>
            /\ currentTreeCount' = lastOp'.arg
            /\ Len(executor'.history) = Len(executor.history) + 1
       /\ (lastOp.op = "execute" /\ lastOp.valid /\ lastOp'.op = "undo") =>
            /\ lastOp'.result = "success"
            /\ currentTreeCount' = executor.lastResult.previousCount
       /\ (lastOp'.op = "undo" /\ lastOp'.result = "success") =>
            /\ executor.pending # <<>>
            /\ currentTreeCount' = Last(executor.pending)
            /\ Len(executor'.history) = Len(executor.history) - 1
       /\ (lastOp'.op = "undo" /\ executor.history = <<>>) =>
            /\ lastOp'.result = "failure"
            /\ currentTreeCount' = currentTreeCount
            /\ scene' = scene
            /\ executor' = executor
       /\ (lastOp'.op = "execute" /\ ~lastOp'.valid) =>
            /\ currentTreeCount' = currentTreeCount
            /\ scene' = scene
            /\ executor'.history = executor.history
       /\ Len(executor'.history) = Len(executor'.pending)]_vars

\* two executes in a row (maxTrees = 200, then treeCount < 5) and one
\* undo(): it has restored the 200 trees of the first execute, and the
\* count of the initial scene is still in the history
C39_Witness ==
    /\ lastOp.op = "undo"
    /\ lastOp.result = "success"
    /\ executor.executes = 2
    /\ executor.history = <<InitialSceneTrees>>
    /\ executor.lastResult.treeCount = 5
    /\ executor.lastResult.previousCount = 200
    /\ currentTreeCount = 200

\* the health classes of the three metrics getMetrics() reports
HealthClasses ==
    {getHealth(profiler.thresholds, "fps", fps),
     getHealth(profiler.thresholds, "memory", profiler.memory),
     getHealth(profiler.thresholds, "drawCalls", profiler.drawCalls)}

\* C40 (SpecStatus): getOverallStatus(profiler.getMetrics()) is RED when a
\* health class of fps, memory or drawCalls is critical, YELLOW when none is
\* critical and one is warning, and GREEN when all three are healthy
C40_StatusIsWorstBand ==
    lastOp.op = "getOverallStatus" =>
        lastOp.result = IF "critical" \in HealthClasses THEN "RED"
                        ELSE IF "warning" \in HealthClasses THEN "YELLOW"
                        ELSE "GREEN"

====
